---- MODULE Spec2Model ----
(***************************************************************************)
(* The workspace of forge-command-center: the folder tree of               *)
(* js/knowledge.js: folders and documents kept in localStorage, and the    *)
(* sidebar's click and drag-and-drop handlers that change them.            *)
(*                                                                         *)
(* Strings are TLA+ strings; a text the user types is a sequence of        *)
(* one-character strings so that trim/lowercase/replace can be computed.   *)
(* JavaScript's null is the string Null, which no slug can equal.          *)
(***************************************************************************)
EXTENDS Integers, Sequences, FiniteSets, TLC

VARIABLES
    folders,          \* localStorage['forge-workspace-folders'], a list of records
    docs,             \* localStorage['forge-workspace-docs'], a list of records
    activeFolder,     \* knowledge.js: let activeFolder
    expandedFolders,  \* knowledge.js: let expandedFolders (a Set)
    draggedFolderId,  \* knowledge.js: let draggedFolderId
    blocks,           \* notion-converter.js: a list of Notion blocks (argument, result)
    doc,              \* notion-converter.js: a Tiptap document (argument, result)
    dropIndicator,    \* knowledge.js: the row carrying a ws-folder-drop-* class
    localEditor,      \* block-editor.js (local-first): module state and form fields
    syncEditor,       \* block-editor.js (Notion sync): module state and timer
    pending,          \* calls of the Notion service that have not returned yet
    notion,           \* what the Notion service has stored
    now,              \* Date.now()
    lastOp,           \* history: the outcome of the handler that ran last
    opCount           \* history: how many handlers have changed the folder list

vars == <<folders, docs, activeFolder, expandedFolders, draggedFolderId,
          blocks, doc, dropIndicator, localEditor, syncEditor, pending, notion,
          now, lastOp, opCount>>

\* the converter's argument and result; the folder handlers never touch them
convVars == <<blocks, doc>>

treeVars == <<folders, docs, activeFolder, expandedFolders, draggedFolderId>>

\* the two block editors and the Notion service
editorVars == <<localEditor, syncEditor, pending, notion, now>>

\* ---------------------------------------------------------------- bounds

\* changes of the folder list (a folder created, deleted or moved) in one run
MaxOps == 3
\* height of a sidebar row in pixels; the pointer offset ranges over 0..RowHeight
RowHeight == 2
\* largest height of a sidebar row under a dragover
MaxRowHeight == 4

\* folders of a tree handed to countDocsRecursive
MaxTreeSize == 3
\* documents of a list handed to countDocsRecursive
MaxDocs == 3
\* blocks of a list handed to notionBlocksToTiptap
MaxBlocks == 3
\* top-level nodes of a document handed to tiptapToNotionBlocks
MaxNodes == 3
\* marks of a text node handed to tiptapContentToRichText
MaxMarks == 2
\* the clock of an editor session: every handler runs one tick after the last
MaxClock == 6
\* versions of the editor's document: 0 is the cleared document
MaxEdits == 2

\* ---------------------------------------------------------------- values

Null == "<null>"

\* JavaScript truthiness of a string-or-null value
Truthy(v) == v # Null /\ v # ""

\* texts the user may type into prompt('Folder name:'); <<>> is Cancel or empty
NameInputs ==
    { <<>>,
      << " " >>,
      << "!" >>,
      << " ", "B", "u", "s", "i", "n", "e", "s", "s", " ", " ",
         "P", "l", "a", "n", "n", "i", "n", "g" >> }

UpperToLower ==
    [ A |-> "a", B |-> "b", C |-> "c", D |-> "d", E |-> "e", F |-> "f", G |-> "g",
      H |-> "h", I |-> "i", J |-> "j", K |-> "k", L |-> "l", M |-> "m", N |-> "n",
      O |-> "o", P |-> "p", Q |-> "q", R |-> "r", S |-> "s", T |-> "t", U |-> "u",
      V |-> "v", W |-> "w", X |-> "x", Y |-> "y", Z |-> "z" ]

ToLowerChar(c) == IF c \in DOMAIN UpperToLower THEN UpperToLower[c] ELSE c

IsSpace(c) == c \in {" ", "\t", "\n"}

SlugChars ==
    { "a", "b", "c", "d", "e", "f", "g", "h", "i", "j", "k", "l", "m", "n", "o",
      "p", "q", "r", "s", "t", "u", "v", "w", "x", "y", "z",
      "0", "1", "2", "3", "4", "5", "6", "7", "8", "9", "-" }

RECURSIVE TrimStart(_)
TrimStart(s) ==
    IF s # <<>> /\ IsSpace(Head(s)) THEN TrimStart(Tail(s)) ELSE s

RECURSIVE TrimEnd(_)
TrimEnd(s) ==
    IF s # <<>> /\ IsSpace(s[Len(s)]) THEN TrimEnd(SubSeq(s, 1, Len(s) - 1)) ELSE s

\* String.prototype.trim
Trim(s) == TrimEnd(TrimStart(s))

\* String.prototype.toLowerCase
ToLowerCase(s) == [i \in 1..Len(s) |-> ToLowerChar(s[i])]

\* .replace(/\s+/g, '-'): every maximal run of whitespace becomes one hyphen
RECURSIVE ReplaceSpaceRuns(_)
ReplaceSpaceRuns(s) ==
    IF s = <<>> THEN <<>>
    ELSE IF IsSpace(Head(s))
         THEN << "-" >> \o ReplaceSpaceRuns(TrimStart(s))
         ELSE << Head(s) >> \o ReplaceSpaceRuns(Tail(s))

\* .replace(/[^a-z0-9-]/g, '')
StripNonSlug(s) == SelectSeq(s, LAMBDA c : c \in SlugChars)

\* the characters of a text joined into one string
RECURSIVE Join(_)
Join(s) == IF s = <<>> THEN "" ELSE Head(s) \o Join(Tail(s))

\* the slug with every whitespace character replaced on its own (/\s/g for /\s+/g)
SlugifyEachSpace(name) ==
    Join(StripNonSlug([i \in 1..Len(Trim(name)) |->
                          IF IsSpace(ToLowerCase(Trim(name))[i]) THEN "-"
                          ELSE ToLowerCase(Trim(name))[i]]))

\* createNewFolder: name.trim().toLowerCase().replace(/\s+/g,'-').replace(/[^a-z0-9-]/g,'')
Slugify(name) == Join(StripNonSlug(ReplaceSpaceRuns(ToLowerCase(Trim(name)))))

DEFAULT_FOLDERS ==
    << [id |-> "content", name |-> "Content", parentId |-> Null, order |-> 0],
       [id |-> "ideas", name |-> "Ideas", parentId |-> Null, order |-> 1],
       [id |-> "business-planning", name |-> "Business Planning",
        parentId |-> Null, order |-> 2] >>

\* The documents an earlier session left in localStorage: saveToLocal stores a
\* note under the folder chosen in the editor, here the first default folder.
\* Only the fields the folder handlers read or copy are kept.
StoredDocs ==
    << [id |-> "doc-1", folder |-> "content"] >>

\* ---------------------------------------------------------------- folder helpers

Range(s) == { s[i] : i \in DOMAIN s }

FolderIds(fs) == { fs[i].id : i \in DOMAIN fs }

\* folders.some(f => f.id === id)
HasFolder(fs, id) == \E i \in DOMAIN fs : fs[i].id = id

\* folders.find(f => f.id === id): the first match
FindFolder(fs, id) == fs[CHOOSE i \in DOMAIN fs :
                            fs[i].id = id /\ \A j \in 1..(i - 1) : fs[j].id # id]

\* Array.prototype.sort((a, b) => a.order - b.order) is stable: an element goes
\* after every element already placed whose order is not greater
RECURSIVE InsertByOrder(_, _)
InsertByOrder(sorted, f) ==
    IF sorted = <<>> THEN << f >>
    ELSE IF Head(sorted).order <= f.order
         THEN << Head(sorted) >> \o InsertByOrder(Tail(sorted), f)
         ELSE << f >> \o sorted

RECURSIVE SortByOrder(_)
SortByOrder(s) ==
    IF s = <<>> THEN <<>>
    ELSE InsertByOrder(SortByOrder(SubSeq(s, 1, Len(s) - 1)), s[Len(s)])

getChildren(fs, parentId) ==
    SortByOrder(SelectSeq(fs, LAMBDA f : f.parentId = parentId))

\* ids of the direct children of pid
ChildIds(fs, pid) == { fs[i].id : i \in { j \in DOMAIN fs : fs[j].parentId = pid } }

\* getDescendantIds with the recursion left out: the direct children only
getDescendantIdsDirectOnly(fs, folderId) ==
    { fs[i].id : i \in { j \in DOMAIN fs : fs[j].parentId = folderId } }

\* getDescendantIds collecting nothing
getDescendantIdsEmpty(fs, folderId) == {}

\* collect(pid) of getDescendantIds: the recursion ends because every call
\* descends one level of a finite forest; fuel bounds it at the folder count
RECURSIVE Collect(_, _, _)
Collect(fs, pid, fuel) ==
    IF fuel = 0 THEN {}
    ELSE ChildIds(fs, pid) \cup
         UNION { Collect(fs, c, fuel - 1) : c \in ChildIds(fs, pid) }

getDescendantIds(fs, folderId) == Collect(fs, folderId, Len(fs))

hasChildren(fs, folderId) == \E i \in DOMAIN fs : fs[i].parentId = folderId

\* countDocsRecursive without the descent into the child folders
countDocsDirectOnly(fs, folderId, ds) ==
    Cardinality({ i \in DOMAIN ds : ds[i].folder = folderId })

RECURSIVE countDocsRecursive(_, _, _)
countDocsRecursive(fs, folderId, ds) ==
    LET direct == Cardinality({ i \in DOMAIN ds : ds[i].folder = folderId })
        kids == SelectSeq(fs, LAMBDA f : f.parentId = folderId)
        SumKids[k \in 0..Len(kids)] ==
            IF k = 0 THEN 0
            ELSE SumKids[k - 1] + countDocsRecursive(fs, kids[k].id, ds)
    IN direct + SumKids[Len(kids)]

\* renderDocsList: the documents listed while active is the active folder
\* (the sort by updatedAt leaves the set of listed documents as it is)
DocsListed(fs, active, ds) ==
    IF ~Truthy(active) THEN ds
    ELSE SelectSeq(ds, LAMBDA d : d.folder \in getDescendantIds(fs, active) \cup {active})

\* renderFolderTree: a folder has a row in the sidebar iff it is a child of null,
\* or a child of a folder that has a row and is in expandedFolders
RECURSIVE RenderedFrom(_, _, _, _)
RenderedFrom(fs, expanded, pid, fuel) ==
    IF fuel = 0 THEN {}
    ELSE ChildIds(fs, pid) \cup
         UNION { RenderedFrom(fs, expanded, c, fuel - 1) :
                   c \in ChildIds(fs, pid) \cap expanded }

RenderedRows == RenderedFrom(folders, expandedFolders, Null, Len(folders))

\* lastOp after a handler that ended without an outcome a property looks at
Other == [op |-> "other"]

\* ---------------------------------------------------------------- initial state

\* no row carries a drop class (clearDropIndicators)
NoIndicator == [row |-> Null, zone |-> Null]

\* no row carries a drop indicator, both editors are closed as the module
\* state is declared, and no call of the Notion service is under way
EditorsIdle ==
    /\ dropIndicator = NoIndicator
    /\ localEditor = [currentDocId |-> Null, isDirty |-> FALSE, isModalOpen |-> FALSE,
                      timer |-> FALSE, title |-> "", folder |-> "", content |-> 0]
    /\ syncEditor = [currentPageId |-> Null, isDirty |-> FALSE, isSaving |-> FALSE,
                     timer |-> FALSE, content |-> 0]
    /\ pending = {}
    /\ notion = [pages |-> <<>>]
    /\ now = 0

Init ==
    /\ EditorsIdle
    /\ folders = DEFAULT_FOLDERS
    /\ docs = StoredDocs
    /\ activeFolder = Null
    /\ expandedFolders = {}
    /\ draggedFolderId = Null
    /\ blocks = <<>>
    /\ doc = [type |-> "doc", content |-> <<>>]
    /\ lastOp = Other
    /\ opCount = 0

\* The sidebar takes a click only while no native drag is in progress
Idle == draggedFolderId = Null

\* ---------------------------------------------------------------- createNewFolder

createNewFolder(name) ==
    /\ UNCHANGED <<convVars, editorVars>>
    /\ UNCHANGED dropIndicator
    /\ Idle
    /\ IF name = <<>> \/ Trim(name) = <<>>
       THEN /\ lastOp' = Other
            /\ UNCHANGED <<treeVars, opCount>>
       ELSE LET id == Slugify(name)
                parentId == IF Truthy(activeFolder) THEN activeFolder ELSE Null
                order == Len(getChildren(folders, parentId))
            IN IF HasFolder(folders, id)
               THEN /\ lastOp' = [op |-> "createNewFolder", name |-> name,
                                  outcome |-> "Folder already exists"]
                    /\ UNCHANGED <<treeVars, opCount>>
               ELSE /\ opCount < MaxOps
                    /\ opCount' = opCount + 1
                    /\ folders' = Append(folders,
                                    [id |-> id, name |-> Join(Trim(name)),
                                     parentId |-> parentId, order |-> order])
                    /\ expandedFolders' = IF Truthy(parentId)
                                          THEN expandedFolders \cup {parentId}
                                          ELSE expandedFolders
                    /\ lastOp' = [op |-> "createNewFolder", name |-> name,
                                  outcome |-> "created"]
                    /\ UNCHANGED <<docs, activeFolder, draggedFolderId>>

\* ---------------------------------------------------------------- sidebar clicks

\* click on .ws-folder-item: item is "" for the All Notes button, else a row's id
selectFolder(item) ==
    /\ UNCHANGED <<convVars, editorVars>>
    /\ UNCHANGED dropIndicator
    /\ Idle
    /\ activeFolder' = IF Truthy(item) THEN item ELSE Null
    /\ lastOp' = Other
    /\ UNCHANGED <<folders, docs, expandedFolders, draggedFolderId, opCount>>

\* click on .ws-folder-toggle, which only a row with children carries
toggleFolder(id) ==
    /\ UNCHANGED <<convVars, editorVars>>
    /\ UNCHANGED dropIndicator
    /\ Idle
    /\ hasChildren(folders, id)
    /\ expandedFolders' = IF ~Truthy(id) THEN expandedFolders
                          ELSE IF id \in expandedFolders
                               THEN expandedFolders \ {id}
                               ELSE expandedFolders \cup {id}
    /\ lastOp' = Other
    /\ UNCHANGED <<folders, docs, activeFolder, draggedFolderId, opCount>>

\* ---------------------------------------------------------------- drag and drop

\* the zone of a pointer offset y within a row of height h: pct = y / h
DropZone(y, h) ==
    IF 4 * y < h THEN "before"
    ELSE IF 4 * y > 3 * h THEN "after"
    ELSE "inside"

\* index of the first folder with this id (0 when there is none)
IndexOfId(fs, id) ==
    IF HasFolder(fs, id)
    THEN CHOOSE i \in DOMAIN fs : fs[i].id = id /\ \A j \in 1..(i - 1) : fs[j].id # id
    ELSE 0

\* draggedFolder.parentId = p, on the object found in the list
SetParentId(fs, id, p) ==
    [i \in DOMAIN fs |->
        IF i = IndexOfId(fs, id) THEN [fs[i] EXCEPT !.parentId = p] ELSE fs[i]]

\* draggedFolder.order = n
SetOrder(fs, id, n) ==
    [i \in DOMAIN fs |->
        IF i = IndexOfId(fs, id) THEN [fs[i] EXCEPT !.order = n] ELSE fs[i]]

\* siblings.forEach((f, i) => { f.order = i; }) written through to the list:
\* the objects of siblings are the objects of the list
RankSiblings(fs, siblings) ==
    [i \in DOMAIN fs |->
        IF \E k \in DOMAIN siblings : siblings[k].id = fs[i].id
        THEN [fs[i] EXCEPT !.order =
                 (CHOOSE k \in DOMAIN siblings : siblings[k].id = fs[i].id) - 1]
        ELSE fs[i]]

\* Array.prototype.splice(start, 0, item), start possibly negative
SpliceIn(s, start, item) ==
    LET at == IF start < 0 THEN (IF Len(s) + start < 0 THEN 0 ELSE Len(s) + start)
              ELSE IF start > Len(s) THEN Len(s) ELSE start
    IN SubSeq(s, 1, at) \o << item >> \o SubSeq(s, at + 1, Len(s))

\* findIndex, zero-based, -1 when absent
FindIndexOfId(s, id) == IndexOfId(s, id) - 1

\* reorderAtLevel inserting at the target's index for 'after' too
reorderAtLevelAtTarget(fs, draggedId, parentId, targetId, position) ==
    LET siblings == SelectSeq(getChildren(fs, parentId), LAMBDA f : f.id # draggedId)
        targetIndex == FindIndexOfId(siblings, targetId)
        spliced == SpliceIn(siblings, targetIndex, FindFolder(fs, draggedId))
    IN RankSiblings(fs, spliced)

\* reorderAtLevel, called after draggedFolder.parentId was set
reorderAtLevel(fs, draggedId, parentId, targetId, position) ==
    LET siblings == SelectSeq(getChildren(fs, parentId), LAMBDA f : f.id # draggedId)
        targetIndex == FindIndexOfId(siblings, targetId)
        insertIndex == IF position = "before" THEN targetIndex ELSE targetIndex + 1
        spliced == SpliceIn(siblings, insertIndex, FindFolder(fs, draggedId))
    IN RankSiblings(fs, spliced)

\* the inside branch of onDrop
dropInside(fs, draggedId, targetId) ==
    LET moved == SetParentId(fs, draggedId, targetId)
        siblings == SelectSeq(getChildren(moved, targetId), LAMBDA f : f.id # draggedId)
    IN SetOrder(moved, draggedId, Len(siblings))

\* the before and after branches of onDrop
dropBeside(fs, draggedId, targetId, position) ==
    LET targetFolder == FindFolder(fs, targetId)
        moved == SetParentId(fs, draggedId, targetFolder.parentId)
    IN reorderAtLevel(moved, draggedId, targetFolder.parentId, targetId, position)

onDragStart(id) ==
    /\ UNCHANGED <<convVars, editorVars>>
    /\ UNCHANGED dropIndicator
    /\ Idle
    /\ draggedFolderId' = id
    /\ lastOp' = Other
    /\ UNCHANGED <<folders, docs, activeFolder, expandedFolders, opCount>>

onDragEnd ==
    /\ UNCHANGED <<convVars, editorVars>>
    /\ dropIndicator' = NoIndicator
    /\ draggedFolderId # Null
    /\ draggedFolderId' = Null
    /\ lastOp' = Other
    /\ UNCHANGED <<folders, docs, activeFolder, expandedFolders, opCount>>

\* drop on the sidebar: row is the id of the row under the pointer, Null when
\* the pointer is over no row; y is the pointer's offset within the row and h
\* the row's height
onDropAt(row, y, h) ==
    /\ UNCHANGED <<convVars, editorVars>>
    /\ dropIndicator' = IF Truthy(draggedFolderId) THEN NoIndicator ELSE dropIndicator
    /\ draggedFolderId # Null
    /\ LET dragged == draggedFolderId
           zone == DropZone(y, h)
           done(outcome) == [op |-> "drop", target |-> row, outcome |-> outcome]
       IN IF ~Truthy(dragged)
          THEN /\ lastOp' = done("ignored")
               /\ UNCHANGED <<treeVars, opCount>>
          ELSE IF row = Null \/ row = dragged
          THEN /\ draggedFolderId' = Null
               /\ lastOp' = IF row = Null THEN Other ELSE done("self")
               /\ UNCHANGED <<folders, docs, activeFolder, expandedFolders, opCount>>
          ELSE IF row \in getDescendantIds(folders, dragged)
          THEN /\ draggedFolderId' = Null
               /\ lastOp' = done("descendant")
               /\ UNCHANGED <<folders, docs, activeFolder, expandedFolders, opCount>>
          ELSE IF ~HasFolder(folders, row) \/ ~HasFolder(folders, dragged)
          THEN /\ draggedFolderId' = Null
               /\ lastOp' = Other
               /\ UNCHANGED <<folders, docs, activeFolder, expandedFolders, opCount>>
          ELSE /\ opCount < MaxOps
               /\ opCount' = opCount + 1
               /\ folders' = IF zone = "inside"
                             THEN dropInside(folders, dragged, row)
                             ELSE dropBeside(folders, dragged, row, zone)
               /\ expandedFolders' = IF zone = "inside"
                                     THEN expandedFolders \cup {row}
                                     ELSE expandedFolders
               /\ draggedFolderId' = Null
               /\ lastOp' = done(zone)
               /\ UNCHANGED <<docs, activeFolder>>

onDrop(row, y) == onDropAt(row, y, RowHeight)

\* onDragOver taking the top quarter to include its lower edge (<= for <)
IndicatorZoneInclusive(y, h) ==
    IF 4 * y <= h THEN "before"
    ELSE IF 4 * y >= 3 * h THEN "after"
    ELSE "inside"

\* the class onDragOver adds to the row: pct = y / rect.height
IndicatorZone(y, h) ==
    IF 4 * y < h THEN "before"
    ELSE IF 4 * y > 3 * h THEN "after"
    ELSE "inside"

\* dragover on the sidebar, with the pointer at offset y in a row of height h
onDragOver(row, y, h) ==
    /\ UNCHANGED <<convVars, editorVars>>
    /\ draggedFolderId # Null
    /\ lastOp' = [op |-> "dragOver", target |-> row, y |-> y, h |-> h]
    /\ dropIndicator' =
         IF ~Truthy(draggedFolderId) THEN dropIndicator
         ELSE IF row = Null \/ row = draggedFolderId THEN NoIndicator
         ELSE IF row \in getDescendantIds(folders, draggedFolderId) THEN NoIndicator
         ELSE [row |-> row, zone |-> IndicatorZone(y, h)]
    /\ UNCHANGED <<treeVars, opCount>>

\* the drop ends a drag where its last dragover was: same row, same offset
onDropAtPointer ==
    /\ lastOp.op = "dragOver"
    /\ onDropAt(lastOp.target, lastOp.y, lastOp.h)

\* a drag with its dragovers: rows of every height up to MaxRowHeight
NextDrag ==
    \/ \E id \in RenderedRows : onDragStart(id)
    \/ onDragEnd
    \/ \E row \in RenderedRows \cup {Null}, h \in 1..MaxRowHeight :
          \E y \in 0..h : onDragOver(row, y, h)
    \/ onDropAtPointer

SpecDrag == Init /\ [][NextDrag]_vars

\* ---------------------------------------------------------------- deleteFolder

\* folder.parentId || folders[0]?.id || 'content'
NewDocFolder(fs, folder) ==
    IF Truthy(folder.parentId) THEN folder.parentId
    ELSE IF fs # <<>> /\ Truthy(fs[1].id) THEN fs[1].id
    ELSE "content"

\* docs.map(d => d.folder === folderId ? {...d, folder: newDocFolder} : d)
ReassignDocs(ds, folderId, newDocFolder) ==
    [i \in DOMAIN ds |->
        IF ds[i].folder = folderId THEN [ds[i] EXCEPT !.folder = newDocFolder]
        ELSE ds[i]]

\* deleteFolder moving the child folders to the top level
RemoveFolderToTop(fs, folder) ==
    LET promoted == [i \in DOMAIN fs |->
                        IF fs[i].parentId = folder.id
                        THEN [fs[i] EXCEPT !.parentId = Null]
                        ELSE fs[i]]
        updatedFolders == SelectSeq(promoted, LAMBDA f : f.id # folder.id)
    IN RankSiblings(updatedFolders, getChildren(updatedFolders, folder.parentId))

\* deleteFolder without the re-ranking of the parent's level
RemoveFolderUnranked(fs, folder) ==
    LET promoted == [i \in DOMAIN fs |->
                        IF fs[i].parentId = folder.id
                        THEN [fs[i] EXCEPT !.parentId = folder.parentId]
                        ELSE fs[i]]
    IN SelectSeq(promoted, LAMBDA f : f.id # folder.id)

\* the children move up, the folder's record goes, its parent's level is re-ranked
RemoveFolder(fs, folder) ==
    LET promoted == [i \in DOMAIN fs |->
                        IF fs[i].parentId = folder.id
                        THEN [fs[i] EXCEPT !.parentId = folder.parentId]
                        ELSE fs[i]]
        updatedFolders == SelectSeq(promoted, LAMBDA f : f.id # folder.id)
    IN RankSiblings(updatedFolders, getChildren(updatedFolders, folder.parentId))

\* if (activeFolder === folderId) activeFolder = null, with the test left out
ActiveAfterDeleteKept(active, folderId) == active

\* if (activeFolder === folderId) activeFolder = null
ActiveAfterDelete(active, folderId) == IF active = folderId THEN Null ELSE active

\* click on a row's delete button, then deleteFolder(folderId); confirmed is the
\* user's answer to confirm(msg)
deleteFolder(folderId, confirmed) ==
    /\ UNCHANGED <<convVars, editorVars>>
    /\ UNCHANGED dropIndicator
    /\ Idle
    /\ IF ~Truthy(folderId) \/ ~HasFolder(folders, folderId)
       THEN /\ lastOp' = Other
            /\ UNCHANGED <<treeVars, opCount>>
       ELSE LET folder == FindFolder(folders, folderId)
                docCount == countDocsRecursive(folders, folderId, docs)
                childFolders == SelectSeq(folders, LAMBDA f : f.parentId = folderId)
                done(outcome) == [op |-> "deleteFolder", id |-> folderId,
                                  parentId |-> folder.parentId,
                                  children |-> Len(childFolders),
                                  docCount |-> docCount,
                                  wasActive |-> (activeFolder = folderId),
                                  outcome |-> outcome]
            IN IF ~confirmed
               THEN /\ lastOp' = Other
                    /\ UNCHANGED <<treeVars, opCount>>
               ELSE /\ opCount < MaxOps
                    /\ opCount' = opCount + 1
                    /\ docs' = ReassignDocs(docs, folderId, NewDocFolder(folders, folder))
                    /\ folders' = RemoveFolder(folders, folder)
                    /\ expandedFolders' = expandedFolders \ {folderId}
                    /\ activeFolder' = ActiveAfterDelete(activeFolder, folderId)
                    /\ lastOp' = done("deleted")
                    /\ UNCHANGED draggedFolderId

\* The handlers take the row an event hit from the DOM, so a folder can be
\* clicked, dragged or dropped on only while renderFolderTree gives it a row
Next ==
    \/ \E item \in RenderedRows \cup {""} : selectFolder(item)
    \/ \E id \in RenderedRows : toggleFolder(id)
    \/ \E id \in RenderedRows : onDragStart(id)
    \/ onDragEnd
    \/ \E row \in RenderedRows \cup {Null}, y \in 0..RowHeight : onDrop(row, y)
    \/ \E id \in RenderedRows, confirmed \in BOOLEAN : deleteFolder(id, confirmed)
    \/ \E name \in NameInputs : createNewFolder(name)

Spec == Init /\ [][Next]_vars

\* ---------------------------------------------------------------- countDocsRecursive
\* countDocsRecursive applied to every cycle-free tree of up to MaxTreeSize folders
\* and every list of up to MaxDocs documents, as renderFolderTree applies it to
\* each row and deleteFolder to the folder it deletes

TreeIds == << "a", "b", "c", "d", "e" >>

DocIds == << "doc-1", "doc-2", "doc-3", "doc-4", "doc-5" >>

\* the folder list with the given parent of each folder
TreeOf(par) ==
    [i \in DOMAIN par |->
        [id |-> TreeIds[i], name |-> TreeIds[i], parentId |-> par[i], order |-> i - 1]]

\* no folder of the list is its own ancestor
RECURSIVE ClimbsOut(_, _, _)
ClimbsOut(fs, pid, steps) ==
    IF ~HasFolder(fs, pid) THEN TRUE
    ELSE IF steps = 0 THEN FALSE
    ELSE ClimbsOut(fs, FindFolder(fs, pid).parentId, steps - 1)

CycleFree(fs) == \A i \in DOMAIN fs : ClimbsOut(fs, fs[i].parentId, Len(fs))

InitCount ==
    /\ \E n \in 1..MaxTreeSize :
          \E par \in [1..n -> {Null} \cup { TreeIds[k] : k \in 1..n }] :
             /\ CycleFree(TreeOf(par))
             /\ folders = TreeOf(par)
    /\ \E m \in 0..MaxDocs :
          \E fo \in [1..m -> { TreeIds[k] : k \in 1..MaxTreeSize }] :
             docs = [i \in 1..m |-> [id |-> DocIds[i], folder |-> fo[i]]]
    /\ activeFolder = Null
    /\ expandedFolders = {}
    /\ draggedFolderId = Null
    /\ blocks = <<>>
    /\ doc = [type |-> "doc", content |-> <<>>]
    /\ lastOp = Other
    /\ opCount = 0
    /\ EditorsIdle

\* const count = countDocsRecursive(folders, f.id, docs)
CountDocs(folderId) ==
    /\ UNCHANGED <<convVars, editorVars>>
    /\ UNCHANGED dropIndicator
    /\ lastOp' = [op |-> "countDocsRecursive", id |-> folderId,
                  count |-> countDocsRecursive(folders, folderId, docs)]
    /\ UNCHANGED <<treeVars, opCount>>

NextCount == \E folderId \in FolderIds(folders) : CountDocs(folderId)

SpecCount == InitCount /\ [][NextCount]_vars

\* ---------------------------------------------------------------- notion-converter.js
\* A Notion block is a record [type, rich_text, ...]: the payload the source
\* reads as block[block.type].rich_text is the field rich_text, block.children
\* is the field children, and a field the JavaScript object lacks (or holds
\* undefined) is a field the record lacks.

\* the result null of convertBlock and convertTiptapNode
NullNode == [none |-> TRUE]

\* stand-ins for the two glyphs of the source: U+25B8 and a space, U+1F4A1
ToggleMarker == "> "

DefaultCalloutEmoji == "(bulb)"

NOTION_COLORS ==
    [ default |-> "inherit", gray |-> "#787774", brown |-> "#9F6B53",
      orange |-> "#D9730D", yellow |-> "#CB912F", green |-> "#448361",
      blue |-> "#337EA9", purple |-> "#9065B0", pink |-> "#C14C8A",
      red |-> "#D44C47", gray_background |-> "#F1F1EF",
      brown_background |-> "#F4EEEE", orange_background |-> "#FBECDD",
      yellow_background |-> "#FBF3DB", green_background |-> "#EDF3EC",
      blue_background |-> "#E7F3F8", purple_background |-> "#F6F3F9",
      pink_background |-> "#FAF1F5", red_background |-> "#FDEBEC" ]

\* Object.entries(NOTION_COLORS): the names in insertion order
NotionColorNames ==
    << "default", "gray", "brown", "orange", "yellow", "green", "blue", "purple",
       "pink", "red", "gray_background", "brown_background", "orange_background",
       "yellow_background", "green_background", "blue_background",
       "purple_background", "pink_background", "red_background" >>

\* name.endsWith('_background')
EndsWithBackground(name) ==
    name \in { "gray_background", "brown_background", "orange_background",
               "yellow_background", "green_background", "blue_background",
               "purple_background", "pink_background", "red_background" }

\* notionColorToCSS passing the name on without the table
notionColorToCSSName(notionColor) == notionColor

notionColorToCSS(notionColor) ==
    IF notionColor \in DOMAIN NOTION_COLORS THEN NOTION_COLORS[notionColor]
    ELSE notionColor

\* the first name of the table, of the wanted kind, whose value is cssColor
\* (the values compare without regard to case; the colours here are the table's)
FirstColorName(cssColor, background) ==
    LET hits == SelectSeq(NotionColorNames,
                          LAMBDA n : /\ NOTION_COLORS[n] = cssColor
                                     /\ EndsWithBackground(n) = background)
    IN IF hits = <<>> THEN Null ELSE Head(hits)

\* cssColorToNotion without its final return 'default'
cssColorToNotionNoFallback(cssColor) == FirstColorName(cssColor, FALSE)

cssColorToNotion(cssColor) ==
    IF FirstColorName(cssColor, FALSE) = Null THEN "default"
    ELSE FirstColorName(cssColor, FALSE)

cssColorToNotionBg(cssColor) ==
    IF FirstColorName(cssColor, TRUE) = Null THEN "yellow_background"
    ELSE FirstColorName(cssColor, TRUE)

\* obj.key || fallback, for a field holding a string
FieldOr(obj, key, fallback) ==
    IF key \in DOMAIN obj /\ Truthy(obj[key]) THEN obj[key] ELSE fallback

\* a boolean field that is present and true
Flag(obj, key) == key \in DOMAIN obj /\ obj[key] = TRUE

\* obj.key || [], for a field holding a list
ListOr(obj, key) == IF key \in DOMAIN obj THEN obj[key] ELSE <<>>

\* segment.plain_text || segment.text?.content || ''
SegmentText(segment) ==
    IF "plain_text" \in DOMAIN segment /\ Truthy(segment.plain_text)
    THEN segment.plain_text
    ELSE IF "text" \in DOMAIN segment THEN FieldOr(segment.text, "content", "")
    ELSE ""

\* the marks richTextToTiptap pushes for one segment, in its order
SegmentMarks(segment) ==
    LET ann == IF "annotations" \in DOMAIN segment THEN segment.annotations
               ELSE [bold |-> FALSE]
        color == FieldOr(ann, "color", "default")
        href == FieldOr(segment, "href", Null)
    IN (IF Flag(ann, "bold") THEN << [type |-> "bold"] >> ELSE <<>>)
       \o (IF Flag(ann, "italic") THEN << [type |-> "italic"] >> ELSE <<>>)
       \o (IF Flag(ann, "strikethrough") THEN << [type |-> "strike"] >> ELSE <<>>)
       \o (IF Flag(ann, "underline") THEN << [type |-> "underline"] >> ELSE <<>>)
       \o (IF Flag(ann, "code") THEN << [type |-> "code"] >> ELSE <<>>)
       \o (IF color = "default" THEN <<>>
           ELSE IF EndsWithBackground(color)
                THEN << [type |-> "highlight",
                         attrs |-> [color |-> notionColorToCSS(color)]] >>
                ELSE << [type |-> "textStyle",
                         attrs |-> [color |-> notionColorToCSS(color)]] >>)
       \o (IF href = Null THEN <<>>
           ELSE << [type |-> "link",
                    attrs |-> [href |-> href, target |-> "_blank"]] >>)

\* richTextToTiptap: the text nodes of a list of segments; the result undefined,
\* returned for a missing or empty list, is the empty list here (the function
\* never returns an empty array)
richTextToTiptap(richText) ==
    [k \in DOMAIN richText |->
        IF SegmentMarks(richText[k]) = <<>>
        THEN [type |-> "text", text |-> SegmentText(richText[k])]
        ELSE [type |-> "text", text |-> SegmentText(richText[k]),
              marks |-> SegmentMarks(richText[k])]]

\* { ...node, content }: a node whose content is undefined has no content field
WithContent(node, content) ==
    IF content = <<>> THEN node ELSE node @@ [content |-> content]

ListKinds == { "bulleted_list_item", "numbered_list_item", "to_do" }

ListNodeType(kind) ==
    CASE kind = "bulleted_list_item" -> "bulletList"
      [] kind = "numbered_list_item" -> "orderedList"
      [] kind = "to_do" -> "taskList"

\* the index after the run of blocks of this type that starts at i
RECURSIVE RunEnd(_, _, _)
RunEnd(bs, i, type) ==
    IF i <= Len(bs) /\ bs[i].type = type THEN RunEnd(bs, i + 1, type) ELSE i

convertTodoItem(block) ==
    [type |-> "taskItem",
     attrs |-> [checked |-> Flag(block, "checked")],
     content |-> << WithContent([type |-> "paragraph"],
                                richTextToTiptap(ListOr(block, "rich_text"))) >>]

RECURSIVE notionBlocksToTiptap(_)
RECURSIVE convertBlock(_)
RECURSIVE convertListItem(_)
RECURSIVE ContentFrom(_, _)
RECURSIVE ContentFromEachItem(_, _)

convertBlock(block) ==
    LET type == block.type
        richText == richTextToTiptap(ListOr(block, "rich_text"))
        heading(level) ==
            WithContent([type |-> "heading", attrs |-> [level |-> level]], richText)
    IN CASE type = "paragraph" -> WithContent([type |-> "paragraph"], richText)
         [] type = "heading_1" -> heading(1)
         [] type = "heading_2" -> heading(2)
         [] type = "heading_3" -> heading(3)
         [] type = "quote" ->
              [type |-> "blockquote",
               content |-> << WithContent([type |-> "paragraph"], richText) >>]
         [] type = "code" ->
              WithContent(
                  [type |-> "codeBlock",
                   attrs |-> [language |-> FieldOr(block, "language", Null)]],
                  richText)
         [] type = "divider" -> [type |-> "horizontalRule"]
         [] type = "callout" ->
              [type |-> "blockquote",
               content |-> <<
                  [type |-> "paragraph",
                   content |->
                      << [type |-> "text",
                          text |-> FieldOr(block, "emoji", DefaultCalloutEmoji)
                                     \o " "] >>
                      \o richText] >>]
         [] type = "toggle" ->
              [type |-> "blockquote",
               attrs |-> [class |-> "toggle-block"],
               content |->
                  << [type |-> "paragraph",
                      attrs |-> [class |-> "toggle-summary"],
                      content |-> << [type |-> "text", text |-> ToggleMarker] >>
                                  \o richText] >>
                  \o (IF ListOr(block, "children") # <<>>
                      THEN notionBlocksToTiptap(block.children).content
                      ELSE <<>>)]
         [] type = "image" ->
              [type |-> "paragraph",
               content |-> << [type |-> "text",
                               text |-> "[Image: "
                                          \o FieldOr(block, "caption", "image")
                                          \o "]"] >>]
         [] type = "bookmark" ->
              [type |-> "paragraph",
               content |-> <<
                  [type |-> "text",
                   text |-> FieldOr(block, "url", "bookmark"),
                   marks |-> IF FieldOr(block, "url", Null) = Null THEN <<>>
                             ELSE << [type |-> "link",
                                      attrs |-> [href |-> block.url]] >>] >>]
         [] OTHER -> NullNode

convertListItem(block) ==
    [type |-> "listItem",
     content |-> << WithContent([type |-> "paragraph"],
                                richTextToTiptap(ListOr(block, "rich_text"))) >>
                 \o (IF ListOr(block, "children") # <<>>
                     THEN notionBlocksToTiptap(block.children).content
                     ELSE <<>>)]

\* the loop of notionBlocksToTiptap opening a new list node for every list block
ContentFromEachItem(bs, i) ==
    IF i > Len(bs) THEN <<>>
    ELSE IF bs[i].type \in ListKinds
    THEN << [type |-> ListNodeType(bs[i].type),
             content |-> << IF bs[i].type = "to_do" THEN convertTodoItem(bs[i])
                            ELSE convertListItem(bs[i]) >>] >>
         \o ContentFromEachItem(bs, i + 1)
    ELSE (IF convertBlock(bs[i]) = NullNode THEN <<>> ELSE << convertBlock(bs[i]) >>)
         \o ContentFromEachItem(bs, i + 1)

\* the while loop of notionBlocksToTiptap from the cursor i on
ContentFrom(bs, i) ==
    IF i > Len(bs) THEN <<>>
    ELSE IF bs[i].type \in ListKinds
    THEN LET j == RunEnd(bs, i, bs[i].type)
         IN << [type |-> ListNodeType(bs[i].type),
                content |-> [k \in 1..(j - i) |->
                               IF bs[i].type = "to_do"
                               THEN convertTodoItem(bs[i + k - 1])
                               ELSE convertListItem(bs[i + k - 1])]] >>
            \o ContentFrom(bs, j)
    ELSE (IF convertBlock(bs[i]) = NullNode THEN <<>> ELSE << convertBlock(bs[i]) >>)
         \o ContentFrom(bs, i + 1)

\* notionBlocksToTiptap without the fallback paragraph
notionBlocksToTiptapNoFallback(bs) ==
    [type |-> "doc", content |-> ContentFrom(bs, 1)]

notionBlocksToTiptap(bs) ==
    [type |-> "doc",
     content |-> IF ContentFrom(bs, 1) # <<>> THEN ContentFrom(bs, 1)
                 ELSE << [type |-> "paragraph"] >>]

\* ---- Tiptap JSON -> Notion blocks

\* the loop over the marks keeping the first color written
RECURSIVE ColorOfMarksFirstWins(_, _)
ColorOfMarksFirstWins(marks, color) ==
    IF marks = <<>> THEN color
    ELSE LET mark == Head(marks)
             css == IF "attrs" \in DOMAIN mark THEN FieldOr(mark.attrs, "color", Null)
                    ELSE Null
         IN IF mark.type = "textStyle" /\ css # Null THEN cssColorToNotion(css)
            ELSE IF mark.type = "highlight" /\ css # Null THEN cssColorToNotionBg(css)
            ELSE ColorOfMarksFirstWins(Tail(marks), color)

\* the value of annotations.color after the loop over the marks
RECURSIVE ColorOfMarks(_, _)
ColorOfMarks(marks, color) ==
    IF marks = <<>> THEN color
    ELSE LET mark == Head(marks)
             css == IF "attrs" \in DOMAIN mark THEN FieldOr(mark.attrs, "color", Null)
                    ELSE Null
         IN ColorOfMarks(Tail(marks),
               IF mark.type = "textStyle" /\ css # Null THEN cssColorToNotion(css)
               ELSE IF mark.type = "highlight" /\ css # Null
                    THEN cssColorToNotionBg(css)
               ELSE color)

\* the value of href after the loop over the marks
RECURSIVE HrefOfMarks(_, _)
HrefOfMarks(marks, href) ==
    IF marks = <<>> THEN href
    ELSE LET mark == Head(marks)
         IN HrefOfMarks(Tail(marks),
               IF mark.type = "link"
               THEN (IF "attrs" \in DOMAIN mark THEN FieldOr(mark.attrs, "href", Null)
                     ELSE Null)
               ELSE href)

\* one segment of tiptapContentToRichText; text.link is the url, or null
RichTextSegment(node) ==
    LET marks == ListOr(node, "marks")
        has(t) == \E k \in DOMAIN marks : marks[k].type = t
    IN [type |-> "text",
        text |-> [content |-> node.text, link |-> HrefOfMarks(marks, Null)],
        annotations |-> [bold |-> has("bold"), italic |-> has("italic"),
                         strikethrough |-> has("strike"),
                         underline |-> has("underline"), code |-> has("code"),
                         color |-> ColorOfMarks(marks, "default")]]

\* tiptapContentToRichText leaving out the italic mark
tiptapContentToRichTextNoItalic(content) ==
    LET texts == SelectSeq(content,
                     LAMBDA node : node.type = "text" /\ FieldOr(node, "text", "") # "")
    IN [k \in DOMAIN texts |->
          [RichTextSegment(texts[k]) EXCEPT !.annotations.italic = FALSE]]

tiptapContentToRichText(content) ==
    LET texts == SelectSeq(content,
                     LAMBDA node : node.type = "text" /\ FieldOr(node, "text", "") # "")
    IN [k \in DOMAIN texts |-> RichTextSegment(texts[k])]

\* getListItemText joining the content of every paragraph child
getListItemTextAllParagraphs(listItem) ==
    LET paras == SelectSeq(ListOr(listItem, "content"),
                           LAMBDA n : n.type = "paragraph")
        Joined[k \in 0..Len(paras)] ==
            IF k = 0 THEN <<>> ELSE Joined[k - 1] \o ListOr(paras[k], "content")
    IN Joined[Len(paras)]

getListItemText(listItem) ==
    LET paras == SelectSeq(ListOr(listItem, "content"),
                           LAMBDA n : n.type = "paragraph")
    IN IF paras = <<>> THEN <<>> ELSE ListOr(Head(paras), "content")

\* node.attrs?.level || 1
HeadingLevel(node) ==
    IF "attrs" \in DOMAIN node /\ "level" \in DOMAIN node.attrs
       /\ node.attrs.level # 0
    THEN node.attrs.level
    ELSE 1

\* Math.min
Min(a, b) == IF a < b THEN a ELSE b

\* the blocks of a list node: one per item
ListBlocks(node, kind) ==
    [k \in DOMAIN ListOr(node, "content") |->
        LET item == node.content[k]
            block == [object |-> "block", type |-> kind,
                      rich_text |-> tiptapContentToRichText(getListItemText(item))]
        IN IF kind = "to_do"
           THEN block @@ [checked |-> ("attrs" \in DOMAIN item
                                        /\ Flag(item.attrs, "checked"))]
           ELSE block]

\* the content of the paragraph children of a blockquote, flattened
RECURSIVE FlatParagraphs(_)
FlatParagraphs(nodes) ==
    IF nodes = <<>> THEN <<>>
    ELSE (IF Head(nodes).type = "paragraph" THEN ListOr(Head(nodes), "content")
          ELSE <<>>)
         \o FlatParagraphs(Tail(nodes))

\* convertTiptapNode: the blocks tiptapToNotionBlocks pushes for one node, a list
\* of one block where the source returns a block and the empty list where it
\* returns null; the payload node[type] is flattened into the block
convertTiptapNode(node) ==
    LET type == node.type
        richText == tiptapContentToRichText(ListOr(node, "content"))
    IN CASE type = "paragraph" ->
              << [object |-> "block", type |-> "paragraph", rich_text |-> richText] >>
         [] type = "heading" ->
              << [object |-> "block",
                  type |-> "heading_" \o ToString(Min(HeadingLevel(node), 3)),
                  rich_text |-> richText] >>
         [] type = "bulletList" -> ListBlocks(node, "bulleted_list_item")
         [] type = "orderedList" -> ListBlocks(node, "numbered_list_item")
         [] type = "taskList" -> ListBlocks(node, "to_do")
         [] type = "blockquote" ->
              << [object |-> "block", type |-> "quote",
                  rich_text |-> tiptapContentToRichText(
                                    FlatParagraphs(ListOr(node, "content")))] >>
         [] type = "codeBlock" ->
              << [object |-> "block", type |-> "code", rich_text |-> richText,
                  language |-> IF "attrs" \in DOMAIN node
                               THEN FieldOr(node.attrs, "language", "plain text")
                               ELSE "plain text"] >>
         [] type = "horizontalRule" -> << [object |-> "block", type |-> "divider"] >>
         [] OTHER -> <<>>

\* the for loop of tiptapToNotionBlocks pushing the array a list node converts
\* to as one element (blocks.push(converted) for blocks.push(...converted))
RECURSIVE BlocksOfNoSpread(_)
BlocksOfNoSpread(nodes) ==
    IF nodes = <<>> THEN <<>>
    ELSE (IF Head(nodes).type \in { "bulletList", "orderedList", "taskList" }
          THEN << convertTiptapNode(Head(nodes)) >>
          ELSE convertTiptapNode(Head(nodes)))
         \o BlocksOfNoSpread(Tail(nodes))

\* the for loop of tiptapToNotionBlocks
RECURSIVE BlocksOf(_)
BlocksOf(nodes) ==
    IF nodes = <<>> THEN <<>>
    ELSE convertTiptapNode(Head(nodes)) \o BlocksOf(Tail(nodes))

\* if (!doc?.content) return []
tiptapToNotionBlocks(d) ==
    IF "content" \notin DOMAIN d THEN <<>> ELSE BlocksOf(d.content)

\* ---- the converter applied to bounded inputs

\* a rich-text segment as the Notion API returns it
Segment(text, bold, italic, code) ==
    [type |-> "text", plain_text |-> text, text |-> [content |-> text, link |-> Null],
     annotations |-> [bold |-> bold, italic |-> italic, strikethrough |-> FALSE,
                      underline |-> FALSE, code |-> code, color |-> "default"],
     href |-> Null]

UnknownBlock == [type |-> "table_of_contents"]

\* the blocks the lists handed to notionBlocksToTiptap are made of
NotionBlockSet ==
    { [type |-> "paragraph"],
      [type |-> "paragraph",
       rich_text |-> << Segment("a", FALSE, FALSE, FALSE),
                        Segment("b", TRUE, FALSE, FALSE) >>],
      [type |-> "paragraph",
       rich_text |-> << Segment("", FALSE, FALSE, FALSE),
                        Segment("c", FALSE, TRUE, TRUE) >>],
      [type |-> "paragraph",
       rich_text |-> << [Segment("d", FALSE, FALSE, FALSE)
                           EXCEPT !.annotations.color = "red_background",
                                  !.href = "https://x"] >>],
      [type |-> "heading_1", rich_text |-> << Segment("a", FALSE, FALSE, FALSE) >>],
      [type |-> "heading_2", rich_text |-> <<>>],
      [type |-> "heading_3", rich_text |-> << Segment("c", TRUE, TRUE, TRUE) >>],
      [type |-> "bulleted_list_item",
       rich_text |-> << Segment("a", FALSE, FALSE, FALSE) >>],
      [type |-> "bulleted_list_item",
       rich_text |-> << Segment("b", FALSE, FALSE, FALSE) >>,
       children |-> << UnknownBlock >>],
      [type |-> "bulleted_list_item",
       rich_text |-> << Segment("c", FALSE, FALSE, FALSE) >>,
       children |-> << [type |-> "numbered_list_item",
                        rich_text |-> << Segment("a", FALSE, FALSE, FALSE) >>],
                       UnknownBlock >>],
      [type |-> "numbered_list_item",
       rich_text |-> << Segment("b", FALSE, FALSE, FALSE) >>],
      [type |-> "to_do", checked |-> TRUE,
       rich_text |-> << Segment("a", FALSE, FALSE, FALSE) >>],
      [type |-> "toggle", rich_text |-> << Segment("a", FALSE, FALSE, FALSE) >>,
       children |-> << UnknownBlock >>],
      [type |-> "toggle", rich_text |-> <<>>,
       children |-> << UnknownBlock,
                       [type |-> "paragraph",
                        rich_text |-> << Segment("b", FALSE, FALSE, FALSE) >>] >>],
      [type |-> "divider"],
      UnknownBlock }

TextNode(text) == [type |-> "text", text |-> text]

Paragraph(text) == [type |-> "paragraph", content |-> << TextNode(text) >>]

\* the nodes the documents handed to tiptapToNotionBlocks are made of
TiptapNodeSet ==
    { [type |-> "paragraph"],
      Paragraph("a"),
      [type |-> "heading", content |-> << TextNode("a") >>],
      [type |-> "heading", attrs |-> [level |-> 0]],
      [type |-> "heading", attrs |-> [level |-> -1], content |-> << TextNode("b") >>],
      [type |-> "heading", attrs |-> [level |-> 2], content |-> << TextNode("c") >>],
      [type |-> "heading", attrs |-> [level |-> 5]],
      [type |-> "bulletList"],
      [type |-> "bulletList",
       content |-> << [type |-> "listItem",
                       content |-> << Paragraph("a"),
                                      [type |-> "bulletList",
                                       content |-> << [type |-> "listItem",
                                                       content |-> << Paragraph("n") >>] >>] >>],
                      [type |-> "listItem",
                       content |-> << Paragraph("b"), Paragraph("c") >>] >>],
      [type |-> "orderedList",
       content |-> << [type |-> "listItem",
                       content |-> << [type |-> "orderedList", content |-> <<>>],
                                      Paragraph("a") >>] >>],
      [type |-> "taskList",
       content |-> << [type |-> "taskItem", attrs |-> [checked |-> TRUE],
                       content |-> << Paragraph("a") >>],
                      [type |-> "taskItem"] >>],
      [type |-> "blockquote", content |-> << Paragraph("a"), Paragraph("b") >>],
      [type |-> "codeBlock", attrs |-> [language |-> Null]],
      [type |-> "horizontalRule"],
      [type |-> "image"] }

BlockLists == UNION { [1..n -> NotionBlockSet] : n \in 0..MaxBlocks }

TiptapDocs ==
    { [type |-> "doc"] } \cup
    { [type |-> "doc", content |-> c] :
        c \in UNION { [1..n -> TiptapNodeSet] : n \in 0..MaxNodes } }

InitConvert ==
    /\ \/ blocks \in BlockLists /\ doc = [type |-> "doc"]
       \/ blocks = <<>> /\ doc \in TiptapDocs
    /\ folders = DEFAULT_FOLDERS
    /\ docs = StoredDocs
    /\ activeFolder = Null
    /\ expandedFolders = {}
    /\ draggedFolderId = Null
    /\ lastOp = Other
    /\ opCount = 0
    /\ EditorsIdle

\* a call of the exported notionBlocksToTiptap on the block list at hand
ApplyNotionBlocksToTiptap ==
    /\ lastOp.op = "other"
    /\ doc' = notionBlocksToTiptap(blocks)
    /\ lastOp' = [op |-> "notionBlocksToTiptap", arg |-> blocks]
    /\ UNCHANGED <<treeVars, blocks, opCount, dropIndicator, editorVars>>

\* a call of the exported tiptapToNotionBlocks, on the document as it was
\* given or as notionBlocksToTiptap has just built it
ApplyTiptapToNotionBlocks ==
    /\ lastOp.op \in { "other", "notionBlocksToTiptap" }
    /\ blocks' = tiptapToNotionBlocks(doc)
    /\ lastOp' = [op |-> "tiptapToNotionBlocks", arg |-> doc,
                  after |-> lastOp.op]
    /\ UNCHANGED <<treeVars, doc, opCount, dropIndicator, editorVars>>

NextConvert == ApplyNotionBlocksToTiptap \/ ApplyTiptapToNotionBlocks

SpecConvert == InitConvert /\ [][NextConvert]_vars

\* ---- the converter applied to single runs: colors, marks, missing fields

\* a run of the given color
ColorSegment(color) ==
    [Segment("t", FALSE, FALSE, FALSE) EXCEPT !.annotations.color = color]

\* a color name the table lacks
UnlistedColor == "teal"

\* a CSS color the table lacks
CustomCssColor == "#123456"

\* one paragraph of one run, for every name of the table and one it lacks
ColorBlocks ==
    { [type |-> "paragraph", rich_text |-> << ColorSegment(c) >>] :
        c \in DOMAIN NOTION_COLORS \cup { UnlistedColor } }

\* blocks without their payload and runs without annotations, plain_text or text
SparseBlocks ==
    { [type |-> t] :
        t \in { "paragraph", "heading_1", "heading_2", "heading_3",
                "bulleted_list_item", "numbered_list_item", "to_do", "quote",
                "code", "divider", "callout", "toggle", "image", "bookmark" } }
    \cup
    { [type |-> "paragraph", rich_text |-> << run >>] :
        run \in { [type |-> "text"],
                  [type |-> "text", plain_text |-> "a"],
                  [type |-> "text", text |-> [content |-> "b"],
                   annotations |-> [bold |-> TRUE]],
                  [type |-> "text", text |-> [link |-> Null],
                   annotations |-> [italic |-> TRUE]] } }

\* the marks of the text nodes handed to tiptapContentToRichText
MarkSet ==
    { [type |-> "bold"],
      [type |-> "textStyle"],
      [type |-> "textStyle", attrs |-> [color |-> NOTION_COLORS.red]],
      [type |-> "textStyle", attrs |-> [color |-> NOTION_COLORS.blue]],
      [type |-> "textStyle", attrs |-> [color |-> CustomCssColor]],
      [type |-> "highlight", attrs |-> [color |-> NOTION_COLORS.red_background]],
      [type |-> "highlight", attrs |-> [color |-> NOTION_COLORS.green_background]],
      [type |-> "highlight", attrs |-> [color |-> CustomCssColor]],
      [type |-> "link"],
      [type |-> "link", attrs |-> [href |-> "https://x"]],
      [type |-> "link", attrs |-> [href |-> "https://y"]] }

\* one paragraph of one text node, for every list of marks up to MaxMarks
MarkedNodes ==
    { [type |-> "paragraph",
       content |-> << [type |-> "text", text |-> "t", marks |-> ms] >>] :
        ms \in UNION { [1..n -> MarkSet] : n \in 0..MaxMarks } }

\* nodes without attrs, content or text
SparseNodes ==
    { [type |-> t] :
        t \in { "paragraph", "heading", "bulletList", "orderedList", "taskList",
                "blockquote", "codeBlock", "horizontalRule" } }
    \cup
    { [type |-> "paragraph", content |-> << [type |-> "text"] >>],
      [type |-> "bulletList", content |-> << [type |-> "listItem"] >>],
      [type |-> "taskList", content |-> << [type |-> "taskItem"] >>],
      [type |-> "taskList",
       content |-> << [type |-> "taskItem", content |-> << [type |-> "paragraph"] >>] >>],
      [type |-> "blockquote", content |-> << [type |-> "paragraph"] >>],
      [type |-> "codeBlock", content |-> << [type |-> "text", text |-> "x"] >>] }

InitRuns ==
    /\ \/ /\ blocks \in { << b >> : b \in ColorBlocks \cup SparseBlocks }
          /\ doc = [type |-> "doc"]
       \/ /\ blocks = <<>>
          /\ doc \in { [type |-> "doc", content |-> << n >>] :
                         n \in MarkedNodes \cup SparseNodes }
    /\ folders = DEFAULT_FOLDERS
    /\ docs = StoredDocs
    /\ activeFolder = Null
    /\ expandedFolders = {}
    /\ draggedFolderId = Null
    /\ lastOp = Other
    /\ opCount = 0
    /\ EditorsIdle

SpecRuns == InitRuns /\ [][NextConvert]_vars

\* ---------------------------------------------------------------- block-editor.js (local-first)

\* The editor's document is kept as a version number: 0 after clearContent,
\* another number after each change; editor.getJSON() reads the version, and
\* the blocks tiptapToNotionBlocks makes of it are named by the same number.

\* values typed into #bePageTitle
TitleInputs == { "", "Plan", " Plan " }

\* String.prototype.trim on the typed titles
TrimTyped(s) == IF s = " Plan " THEN "Plan" ELSE s

\* suffixes Math.random().toString(36).slice(2, 8) may return
RandomSuffixes == { "k3x9ab" }

\* `${prefix}-${Date.now()}-${Math.random().toString(36).slice(2, 8)}`
generateId(prefix, t, r) == prefix \o "-" \o ToString(t) \o "-" \o r

\* the notes an earlier session saved with saveToLocal, neither backed up yet
EditorDocs ==
    << [id |-> "doc-0-aaaaaa", title |-> "Plan", folder |-> "content", content |-> 1,
        notionPageId |-> Null, createdAt |-> 0, updatedAt |-> 0],
       [id |-> "doc-0-bbbbbb", title |-> "Untitled", folder |-> "ideas", content |-> 2,
        notionPageId |-> Null, createdAt |-> 0, updatedAt |-> 0] >>

IdsOfDocs(ds) == { ds[i].id : i \in DOMAIN ds }

\* docs.find(d => d.id === id): the first match
FindDoc(ds, id) == ds[CHOOSE i \in DOMAIN ds : ds[i].id = id /\ \A j \in 1..(i - 1) : ds[j].id # id]

\* populateFolderSelector: the select shows its first option, the first root
\* folder in the order of buildFolderOptions, unless a value is assigned
FirstOption(fs) ==
    IF getChildren(fs, Null) = <<>> THEN "" ELSE getChildren(fs, Null)[1].id

\* saveToLocal writing a new document on every call
saveToLocalAlwaysNew(le, ds, t, r) ==
    LET title == IF TrimTyped(le.title) # "" THEN TrimTyped(le.title) ELSE "Untitled"
        folder == IF le.folder # "" THEN le.folder ELSE "content"
        newDoc == [id |-> generateId("doc", t, r), title |-> title, folder |-> folder,
                   content |-> le.content, notionPageId |-> Null,
                   createdAt |-> t, updatedAt |-> t]
    IN  [docs |-> Append(ds, newDoc),
         editor |-> [le EXCEPT !.currentDocId = newDoc.id, !.isDirty = FALSE]]

\* saveToLocal at time t: the stored documents and the module state it leaves
saveToLocal(le, ds, t, r) ==
    LET title == IF TrimTyped(le.title) # "" THEN TrimTyped(le.title) ELSE "Untitled"
        folder == IF le.folder # "" THEN le.folder ELSE "content"
        newDoc == [id |-> generateId("doc", t, r), title |-> title, folder |-> folder,
                   content |-> le.content, notionPageId |-> Null,
                   createdAt |-> t, updatedAt |-> t]
    IN  IF Truthy(le.currentDocId)
        THEN [docs |-> [i \in DOMAIN ds |->
                          IF ds[i].id = le.currentDocId
                          THEN [ds[i] EXCEPT !.title = title, !.folder = folder,
                                             !.content = le.content, !.updatedAt = t]
                          ELSE ds[i]],
              editor |-> [le EXCEPT !.isDirty = FALSE]]
        ELSE [docs |-> Append(ds, newDoc),
              editor |-> [le EXCEPT !.currentDocId = newDoc.id, !.isDirty = FALSE]]

\* triggerNotionBackup up to its await: the call it leaves under way, if any.
\* doc names the document whose content the call carries.
triggerNotionBackup(le, ds, t) ==
    IF ~Truthy(le.currentDocId) \/ le.currentDocId \notin IdsOfDocs(ds) THEN {}
    ELSE LET d == FindDoc(ds, le.currentDocId)
         IN  IF Truthy(d.notionPageId)
             THEN { [call |-> "updatePageBlocks", page |-> d.notionPageId, title |-> d.title,
                     content |-> le.content, doc |-> d.id, at |-> t] }
             ELSE { [call |-> "createPage", page |-> Null,
                     title |-> IF d.title # "" THEN d.title ELSE "Untitled",
                     content |-> le.content, doc |-> d.id, at |-> t] }

\* every handler of the editor runs at a later time than the one before it
Tick ==
    /\ now < MaxClock
    /\ now' = now + 1

localFrame == <<folders, activeFolder, expandedFolders, draggedFolderId, blocks, doc,
                dropIndicator, syncEditor, opCount>>

\* the New Note button: openBlockEditor({ folder: activeFolder })
openNewNote ==
    /\ Tick
    /\ ~localEditor.isModalOpen
    /\ localEditor' = [localEditor EXCEPT
                         !.isModalOpen = TRUE, !.currentDocId = Null, !.title = "",
                         !.content = 0, !.isDirty = FALSE,
                         !.folder = IF Truthy(activeFolder) THEN activeFolder
                                    ELSE FirstOption(folders)]
    /\ lastOp' = [op |-> "openNewNote"]
    /\ UNCHANGED <<localFrame, docs, pending, notion>>

\* a click on a document card: openBlockEditor({ docId }), loadDoc(docId)
openDoc(docId) ==
    /\ Tick
    /\ ~localEditor.isModalOpen
    /\ Truthy(docId)
    /\ docId \in IdsOfDocs(docs)
    /\ LET d == FindDoc(docs, docId)
       IN  localEditor' = [localEditor EXCEPT
                             !.isModalOpen = TRUE, !.currentDocId = d.id, !.title = d.title,
                             !.content = d.content, !.isDirty = FALSE,
                             !.folder = IF Truthy(d.folder) THEN d.folder
                                        ELSE FirstOption(folders)]
    /\ lastOp' = [op |-> "openDoc", doc |-> docId]
    /\ UNCHANGED <<localFrame, docs, pending, notion>>

\* onUpdate of the editor: the document has changed to version c
onUpdate(c) ==
    /\ Tick
    /\ localEditor.isModalOpen
    /\ c # localEditor.content
    /\ localEditor' = [localEditor EXCEPT !.content = c, !.isDirty = TRUE, !.timer = TRUE]
    /\ lastOp' = [op |-> "onUpdate"]
    /\ UNCHANGED <<localFrame, docs, pending, notion>>

\* input on #bePageTitle
titleInput(title) ==
    /\ Tick
    /\ localEditor.isModalOpen
    /\ title # localEditor.title
    /\ localEditor' = [localEditor EXCEPT !.title = title, !.isDirty = TRUE, !.timer = TRUE]
    /\ lastOp' = [op |-> "titleInput"]
    /\ UNCHANGED <<localFrame, docs, pending, notion>>

\* the user picks another option of #beDocFolder: no handler listens
selectDocFolder(folder) ==
    /\ Tick
    /\ localEditor.isModalOpen
    /\ folder # localEditor.folder
    /\ localEditor' = [localEditor EXCEPT !.folder = folder]
    /\ lastOp' = [op |-> "selectDocFolder"]
    /\ UNCHANGED <<localFrame, docs, pending, notion>>

\* the timer of debouncedAutoSave fires
debouncedAutoSave(r) ==
    /\ Tick
    /\ localEditor.timer
    /\ LET saved == saveToLocal(localEditor, docs, now', r)
       IN  IF localEditor.isDirty
           THEN /\ docs' = saved.docs
                /\ localEditor' = [saved.editor EXCEPT !.timer = FALSE]
           ELSE /\ docs' = docs
                /\ localEditor' = [localEditor EXCEPT !.timer = FALSE]
    /\ lastOp' = [op |-> "autoSave", saved |-> localEditor.isDirty]
    /\ UNCHANGED <<localFrame, pending, notion>>

\* the Save button: saveToLocal(), then triggerNotionBackup() up to its await
saveClick(r) ==
    /\ Tick
    /\ localEditor.isModalOpen
    /\ LET saved == saveToLocal(localEditor, docs, now', r)
       IN  /\ docs' = saved.docs
           /\ localEditor' = saved.editor
           /\ pending' = pending \cup triggerNotionBackup(saved.editor, saved.docs, now')
    /\ lastOp' = [op |-> "saveClick", saved |-> TRUE]
    /\ UNCHANGED <<localFrame, notion>>

\* the close button, the backdrop or Escape: closeBlockEditor
closeBlockEditor(r) ==
    /\ Tick
    /\ localEditor.isModalOpen
    /\ LET saved == saveToLocal(localEditor, docs, now', r)
       IN  IF localEditor.isDirty
           THEN /\ docs' = saved.docs
                /\ localEditor' = [saved.editor EXCEPT !.isModalOpen = FALSE]
           ELSE /\ docs' = docs
                /\ localEditor' = [localEditor EXCEPT !.isModalOpen = FALSE]
    /\ lastOp' = [op |-> "close", saved |-> localEditor.isDirty]
    /\ UNCHANGED <<localFrame, pending, notion>>

\* createPage returns to triggerNotionBackup: with a pageId when ok, and then
\* the id goes to the document that is current when the call returns
createPageReturns(c, ok) ==
    /\ Tick
    /\ c \in pending
    /\ c.call = "createPage"
    /\ pending' = pending \ {c}
    /\ LET pageId == "page-" \o ToString(Len(notion.pages) + 1)
       IN  IF ok
           THEN /\ notion' = [notion EXCEPT !.pages =
                                Append(@, [id |-> pageId, title |-> c.title,
                                           content |-> c.content, doc |-> c.doc])]
                /\ docs' = [i \in DOMAIN docs |->
                              IF docs[i].id = localEditor.currentDocId
                              THEN [docs[i] EXCEPT !.notionPageId = pageId]
                              ELSE docs[i]]
                /\ lastOp' = [op |-> "createPage", doc |-> c.doc, pageId |-> pageId]
           ELSE /\ UNCHANGED <<notion, docs>>
                /\ lastOp' = [op |-> "createPage", doc |-> c.doc, pageId |-> Null]
    /\ UNCHANGED <<localFrame, localEditor>>

\* updatePageBlocks returns to triggerNotionBackup: only the status line changes
updatePageBlocksReturns(c, ok) ==
    /\ Tick
    /\ c \in pending
    /\ c.call = "updatePageBlocks"
    /\ pending' = pending \ {c}
    /\ notion' = [notion EXCEPT !.pages =
                    [i \in DOMAIN @ |-> IF ok /\ @[i].id = c.page
                                        THEN [@[i] EXCEPT !.content = c.content]
                                        ELSE @[i]]]
    /\ lastOp' = [op |-> "updatePageBlocks", doc |-> c.doc, pageId |-> c.page]
    /\ UNCHANGED <<localFrame, localEditor, docs>>

InitLocal ==
    /\ EditorsIdle
    /\ folders = DEFAULT_FOLDERS
    /\ docs = EditorDocs
    /\ activeFolder \in { Null } \cup FolderIds(DEFAULT_FOLDERS)
    /\ expandedFolders = {}
    /\ draggedFolderId = Null
    /\ blocks = <<>>
    /\ doc = [type |-> "doc", content |-> <<>>]
    /\ lastOp = Other
    /\ opCount = 0

NextLocal ==
    \/ openNewNote
    \/ \E docId \in IdsOfDocs(docs) : openDoc(docId)
    \/ \E c \in 0..MaxEdits : onUpdate(c)
    \/ \E title \in TitleInputs : titleInput(title)
    \/ \E folder \in FolderIds(folders) : selectDocFolder(folder)
    \/ \E r \in RandomSuffixes : debouncedAutoSave(r)
    \/ \E r \in RandomSuffixes : saveClick(r)
    \/ \E r \in RandomSuffixes : closeBlockEditor(r)
    \/ \E c \in pending, ok \in BOOLEAN : createPageReturns(c, ok)
    \/ \E c \in pending, ok \in BOOLEAN : updatePageBlocksReturns(c, ok)

SpecLocal == InitLocal /\ [][NextLocal]_vars

\* ---------------------------------------------------------------- block-editor.js (Notion sync)

\* The session of the Notion-synced editor after openBlockEditor() found no
\* pinned page: the modal is open and the editor shows a notice. Documents
\* are version numbers as above; a page of Notion holds the version last
\* written to it, 0 for a page without blocks.

PageIds == { "page-a", "page-b" }

\* '<p>Select a page from the sidebar, or search for one.</p>'
SelectPageNotice == 100

\* '<p><em>This page has no editable content. ...</em></p>'
EmptyPageNotice == 101

\* the pages of the workspace in Notion: one with blocks, one without
NotionPages ==
    << [id |-> "page-a", title |-> "Plan", content |-> 1, doc |-> Null],
       [id |-> "page-b", title |-> "Untitled", content |-> 0, doc |-> Null] >>

\* the blocks Notion holds for a page
PageContent(pages, pageId) ==
    pages[CHOOSE i \in DOMAIN pages : pages[i].id = pageId].content

\* saveDraftToLocal: the drafts in localStorage after it
saveDraftToLocal(se) ==
    IF ~Truthy(se.currentPageId) THEN se.drafts
    ELSE [se.drafts EXCEPT ![se.currentPageId] = { se.content }]

\* saveToNotion up to its await: the module state and the call under way
saveToNotion(se) ==
    IF ~Truthy(se.currentPageId) \/ se.isSaving
    THEN [editor |-> se, calls |-> {}]
    ELSE [editor |-> [se EXCEPT !.isSaving = TRUE],
          calls |-> { [call |-> "updatePageBlocks", page |-> se.currentPageId,
                       content |-> se.content, saving |-> se.isSaving] }]

syncFrame == <<folders, docs, activeFolder, expandedFolders, draggedFolderId, blocks, doc,
               dropIndicator, localEditor, opCount>>

\* a click on a page of the list: loadPage up to `await getPageBlocks`
loadPage(pageId) ==
    /\ Tick
    /\ syncEditor' = [syncEditor EXCEPT !.currentPageId = pageId, !.isDirty = FALSE]
    /\ pending' = pending \cup { [call |-> "getPageBlocks", page |-> pageId,
                                  draft |-> syncEditor.drafts[pageId]] }
    /\ lastOp' = [op |-> "loadPage", page |-> pageId]
    /\ UNCHANGED <<syncFrame, notion>>

\* getPageBlocks returns to loadPage: the blocks of the page when ok, null otherwise
getPageBlocksReturns(c, ok) ==
    /\ Tick
    /\ c \in pending
    /\ c.call = "getPageBlocks"
    /\ pending' = pending \ {c}
    /\ LET pageBlocks == PageContent(notion.pages, c.page)
       IN  syncEditor' = [syncEditor EXCEPT !.content =
                            IF ok /\ pageBlocks # 0 THEN pageBlocks
                            ELSE IF ok THEN EmptyPageNotice
                            ELSE IF c.draft # {} THEN CHOOSE v \in c.draft : TRUE
                            ELSE 0]
    /\ lastOp' = [op |-> "getPageBlocks", page |-> c.page, success |-> ok]
    /\ UNCHANGED <<syncFrame, notion>>

\* onUpdate of the synced editor: the document has changed to version c
onUpdateSynced(c) ==
    /\ Tick
    /\ c # syncEditor.content
    /\ syncEditor' = [syncEditor EXCEPT !.content = c, !.isDirty = TRUE, !.timer = TRUE]
    /\ lastOp' = [op |-> "onUpdate", content |-> c]
    /\ UNCHANGED <<syncFrame, pending, notion>>

\* the timer of debouncedSave fires
debouncedSave ==
    /\ Tick
    /\ syncEditor.timer
    /\ LET se == [syncEditor EXCEPT !.timer = FALSE]
           drafted == [se EXCEPT !.drafts = saveDraftToLocal(se)]
           saving == saveToNotion(drafted)
       IN  IF ~se.isDirty \/ ~Truthy(se.currentPageId)
           THEN /\ syncEditor' = se
                /\ pending' = pending
                /\ lastOp' = [op |-> "debouncedSave", sent |-> FALSE]
           ELSE /\ syncEditor' = saving.editor
                /\ pending' = pending \cup saving.calls
                /\ lastOp' = [op |-> "debouncedSave", sent |-> saving.calls # {}]
    /\ UNCHANGED <<syncFrame, notion>>

\* the Save button of the synced editor
saveClickSynced ==
    /\ Tick
    /\ LET drafted == [syncEditor EXCEPT !.drafts = saveDraftToLocal(syncEditor)]
           saving == saveToNotion(drafted)
       IN  IF ~Truthy(syncEditor.currentPageId)
           THEN /\ UNCHANGED <<syncEditor, pending>>
                /\ lastOp' = [op |-> "saveClick", sent |-> FALSE]
           ELSE /\ syncEditor' = saving.editor
                /\ pending' = pending \cup saving.calls
                /\ lastOp' = [op |-> "saveClick", sent |-> saving.calls # {}]
    /\ UNCHANGED <<syncFrame, notion>>

\* updatePageBlocks returns to saveToNotion: success, or failure or a throw
saveToNotionReturns(c, ok) ==
    /\ Tick
    /\ c \in pending
    /\ c.call = "updatePageBlocks"
    /\ pending' = pending \ {c}
    /\ syncEditor' = [syncEditor EXCEPT !.isDirty = IF ok THEN FALSE ELSE @,
                                        !.isSaving = FALSE]
    /\ notion' = [notion EXCEPT !.pages =
                    [i \in DOMAIN @ |-> IF ok /\ @[i].id = c.page
                                        THEN [@[i] EXCEPT !.content = c.content]
                                        ELSE @[i]]]
    /\ lastOp' = [op |-> "saveToNotion", success |-> ok, page |-> c.page,
                  content |-> c.content]
    /\ UNCHANGED syncFrame

\* the New page button
newPage ==
    /\ Tick
    /\ syncEditor' = [syncEditor EXCEPT !.currentPageId = Null, !.content = 0,
                                        !.isDirty = FALSE]
    /\ lastOp' = [op |-> "newPage"]
    /\ UNCHANGED <<syncFrame, pending, notion>>

InitSync ==
    /\ folders = DEFAULT_FOLDERS
    /\ docs = StoredDocs
    /\ activeFolder = Null
    /\ expandedFolders = {}
    /\ draggedFolderId = Null
    /\ blocks = <<>>
    /\ doc = [type |-> "doc", content |-> <<>>]
    /\ dropIndicator = NoIndicator
    /\ localEditor = [currentDocId |-> Null, isDirty |-> FALSE, isModalOpen |-> FALSE,
                      timer |-> FALSE, title |-> "", folder |-> "", content |-> 0]
    /\ syncEditor = [currentPageId |-> Null, isDirty |-> FALSE, isSaving |-> FALSE,
                     timer |-> FALSE, content |-> SelectPageNotice,
                     drafts |-> [p \in PageIds |-> {}]]
    /\ pending = {}
    /\ notion = [pages |-> NotionPages]
    /\ now = 0
    /\ lastOp = Other
    /\ opCount = 0

NextSync ==
    \/ \E pageId \in PageIds : loadPage(pageId)
    \/ \E c \in pending, ok \in BOOLEAN : getPageBlocksReturns(c, ok)
    \/ \E c \in 0..MaxEdits : onUpdateSynced(c)
    \/ debouncedSave
    \/ saveClickSynced
    \/ \E c \in pending, ok \in BOOLEAN : saveToNotionReturns(c, ok)
    \/ newPage

SpecSync == InitSync /\ [][NextSync]_vars

\* ================================================================ properties

\* the folder with this id (ids are unique, see C10)
FolderOf(fs, id) == CHOOSE f \in Range(fs) : f.id = id

\* following parentId links from pid reaches null within the given number of steps
RECURSIVE ReachesNull(_, _, _)
ReachesNull(fs, pid, steps) ==
    IF pid = Null THEN TRUE
    ELSE IF steps = 0 \/ ~(\E f \in Range(fs) : f.id = pid) THEN FALSE
    ELSE ReachesNull(fs, FolderOf(fs, pid).parentId, steps - 1)

\* the ids met on the way from a folder up to its root, the folder excluded
RECURSIVE AncestorIds(_, _, _)
AncestorIds(fs, id, steps) ==
    IF steps = 0 \/ ~(\E f \in Range(fs) : f.id = id) THEN {}
    ELSE LET p == FolderOf(fs, id).parentId
         IN IF p = Null THEN {} ELSE {p} \cup AncestorIds(fs, p, steps - 1)

\* target is anc itself or lies below it
IsSelfOrBelow(fs, target, anc) ==
    target = anc \/ anc \in AncestorIds(fs, target, Len(fs))

\* the orders of the folders under parent p are exactly 0..n-1, none twice
DenseAt(fs, p) ==
    LET idx == { i \in DOMAIN fs : fs[i].parentId = p }
    IN /\ { fs[i].order : i \in idx } = 0..(Cardinality(idx) - 1)
       /\ \A i, j \in idx : fs[i].order = fs[j].order => i = j

\* C1: in every reachable state every folder's parentId chain reaches null within
\* |folders| steps: each non-null parentId names an existing folder and no folder
\* is its own ancestor.
C1_ParentChainsTerminate ==
    \A i \in DOMAIN folders : ReachesNull(folders, folders[i].parentId, Len(folders))

\* a drop has just built a chain of three folders
C1_Witness ==
    /\ lastOp.op = "drop"
    /\ \E f, g \in Range(folders) : f.parentId = g.id /\ g.parentId # Null

\* C2: in every reachable state, for every parent id (null included) the order
\* values of the folders under it are exactly 0..n-1 without duplicates.
C2_SiblingOrdersDense ==
    \A p \in FolderIds(folders) \cup {Null} : DenseAt(folders, p)

\* C3: in every reachable state every stored document's folder is the id of a
\* folder that exists.
C3_DocsReferenceExistingFolders ==
    \A i \in DOMAIN docs : docs[i].folder \in FolderIds(folders)

\* C4: a drop of the dragged folder onto its own row or onto the row of one of its
\* descendants, at any pointer offset, leaves the folder list and the document
\* list unchanged.
C4_IllegalDropChangesNothing ==
    [][ ( /\ lastOp'.op = "drop"
          /\ draggedFolderId # Null
          /\ IsSelfOrBelow(folders, lastOp'.target, draggedFolderId) )
        => (folders' = folders /\ docs' = docs) ]_vars

\* a drop onto a descendant's row has just been turned down
C4_Witness ==
    /\ lastOp.op = "drop"
    /\ lastOp.outcome = "descendant"
    /\ FolderOf(folders, lastOp.target).parentId # Null

\* the ids of a list of folders, in the list's order
IdsOf(s) == [k \in DOMAIN s |-> s[k].id]

\* C5: after a confirmed deleteFolder(F) of an existing folder, F is gone, every
\* folder that had parentId F has F's former parentId, and every other folder
\* keeps its id, name and parentId.
C5_DeletePromotesChildren ==
    [][ lastOp'.op = "deleteFolder" =>
          LET F == lastOp'.id
          IN /\ F \in FolderIds(folders)
             /\ F \notin FolderIds(folders')
             /\ Len(folders') = Len(folders) - 1
             /\ \A f \in Range(folders) :
                   f.id # F =>
                     \E g \in Range(folders') :
                       /\ g.id = f.id
                       /\ g.name = f.name
                       /\ g.parentId = IF f.parentId = F
                                       THEN FolderOf(folders, F).parentId
                                       ELSE f.parentId ]_vars

\* a folder that had child folders and a parent of its own has just been deleted
C5_Witness ==
    /\ lastOp.op = "deleteFolder"
    /\ lastOp.children > 0
    /\ lastOp.parentId # Null
    /\ \E f \in Range(folders) : f.parentId = lastOp.parentId

\* C6: after a confirmed deleteFolder(F) the folders under F's former parentId
\* (F's former siblings and F's promoted children) have the orders 0..n-1, none
\* twice.
C6_DeleteLeavesLevelDense ==
    lastOp.op = "deleteFolder" => DenseAt(folders, lastOp.parentId)

\* a folder with child folders has just been deleted and its level holds at
\* least two folders
C6_Witness ==
    /\ lastOp.op = "deleteFolder"
    /\ lastOp.children > 0
    /\ Cardinality({ f \in Range(folders) : f.parentId = lastOp.parentId }) >= 2

\* C7: after a confirmed deleteFolder(F) where F has a non-null parentId P, every
\* document that was in F is in P, every other document keeps its folder, and the
\* document ids are unchanged.
C7_DeleteMovesDocsToParent ==
    [][ (lastOp'.op = "deleteFolder" /\ lastOp'.parentId # Null) =>
          /\ Len(docs') = Len(docs)
          /\ \A i \in DOMAIN docs :
                /\ docs'[i].id = docs[i].id
                /\ docs'[i].folder = IF docs[i].folder = lastOp'.id
                                     THEN FolderOf(folders, lastOp'.id).parentId
                                     ELSE docs[i].folder ]_vars

\* C8: a legal drop in the inside zone sets the dragged folder's parentId to the
\* target, makes the dragged folder the last entry of getChildren(folders, target)
\* and adds the target to the expanded set, also when the dragged folder was
\* already a child of the target.
C8_DropInsideAppendsLast ==
    [][ /\ ( /\ lastOp'.op = "drop"
             /\ lastOp'.outcome \in {"self", "descendant"} )
           => IsSelfOrBelow(folders, lastOp'.target, draggedFolderId)
        /\ ( /\ lastOp'.op = "drop"
             /\ lastOp'.outcome = "inside" ) =>
          LET kids == getChildren(folders', lastOp'.target)
          IN /\ FolderOf(folders', draggedFolderId).parentId = lastOp'.target
             /\ kids # <<>>
             /\ kids[Len(kids)].id = draggedFolderId
             /\ lastOp'.target \in expandedFolders' ]_vars

\* C9: a legal drop in the before (after) zone sets the dragged folder's parentId
\* to the target's parentId, puts the dragged folder immediately before (after)
\* the target in getChildren of that parent, keeps the relative order of the other
\* siblings, and leaves that sibling list with the orders 0..n-1.
C9_DropBesideSplicesAndRanks ==
    [][ /\ ( /\ lastOp'.op = "drop"
             /\ lastOp'.outcome \in {"self", "descendant"} )
           => IsSelfOrBelow(folders, lastOp'.target, draggedFolderId)
        /\ ( /\ lastOp'.op = "drop"
             /\ lastOp'.outcome \in {"before", "after"} ) =>
          LET row == lastOp'.target
              P == FolderOf(folders, row).parentId
              others == SelectSeq(IdsOf(getChildren(folders, P)),
                                  LAMBDA id : id # draggedFolderId)
              after == getChildren(folders', P)
              first == IF lastOp'.outcome = "before" THEN draggedFolderId ELSE row
              second == IF lastOp'.outcome = "before" THEN row ELSE draggedFolderId
          IN /\ SelectSeq(IdsOf(after), LAMBDA id : id # draggedFolderId) = others
             /\ \E k \in 1..(Len(after) - 1) :
                   after[k].id = first /\ after[k + 1].id = second
             /\ \A k \in DOMAIN after : after[k].order = k - 1 ]_vars

\* a drop beside a row has just ranked a level that holds three folders
C9_Witness ==
    /\ lastOp.op = "drop"
    /\ lastOp.outcome \in {"before", "after"}
    /\ \E p \in FolderIds(folders) \cup {Null} :
          Cardinality({ f \in Range(folders) : f.parentId = p }) = 3

\* the id createNewFolder is to derive from each text of NameInputs that is not
\* blank: lowercased, whitespace runs replaced by '-', other characters than
\* [a-z0-9-] removed
ExpectedId(name) ==
    CASE name = << "!" >> -> ""
      [] name = << " ", "B", "u", "s", "i", "n", "e", "s", "s", " ", " ",
                   "P", "l", "a", "n", "n", "i", "n", "g" >> -> "business-planning"

\* C10: folder ids are unique in every reachable state, and createNewFolder with
\* a name whose slug is the id of an existing folder (at any nesting level) is
\* declined with 'Folder already exists' and leaves the folder list, the
\* document list, the active folder and the expanded set unchanged.
C10_DuplicateIdDeclined ==
    /\ [](\A i, j \in DOMAIN folders : folders[i].id = folders[j].id => i = j)
    /\ [][ ( /\ lastOp'.op = "createNewFolder"
               /\ ExpectedId(lastOp'.name) \in FolderIds(folders) ) =>
               /\ lastOp'.outcome = "Folder already exists"
               /\ folders' = folders
               /\ docs' = docs
               /\ activeFolder' = activeFolder
               /\ expandedFolders' = expandedFolders ]_vars

\* a name has just been declined because a nested folder has its slug
C10_Witness ==
    /\ lastOp.op = "createNewFolder"
    /\ lastOp.outcome = "Folder already exists"
    /\ \E f \in Range(folders) : f.id = "business-planning" /\ f.parentId # Null

\* C11: a folder created by createNewFolder under parent P (the active folder, or
\* null when All Notes is selected) is, right after its creation, the last entry
\* of getChildren(folders, P).
C11_CreatedFolderIsLast ==
    [][ ( /\ lastOp'.op = "createNewFolder"
          /\ lastOp'.outcome = "created" ) =>
          LET P == activeFolder
              kids == getChildren(folders', P)
          IN /\ kids # <<>>
             /\ kids[Len(kids)].id \notin FolderIds(folders)
             /\ kids[Len(kids)].id = ExpectedId(lastOp'.name) ]_vars

\* C13: the active folder is always null (All Notes) or the id of an existing
\* folder; deleting the active folder resets the selection to null and deleting
\* any other folder leaves the selection unchanged.
C13_ActiveFolderExists ==
    /\ [](activeFolder = Null \/ activeFolder \in FolderIds(folders))
    /\ [][ lastOp'.op = "deleteFolder" =>
              activeFolder' = IF activeFolder = lastOp'.id THEN Null
                              ELSE activeFolder ]_vars

\* the active folder has just been deleted while it had child folders
C13_Witness ==
    /\ lastOp.op = "deleteFolder"
    /\ lastOp.wasActive
    /\ lastOp.children > 0
    /\ activeFolder = Null

\* the tree root -> child -> grandchild
ChainOfThree == TreeOf(<< Null, "a", "b" >>)

\* one document in each folder of the chain
OneDocEach == [i \in 1..3 |-> [id |-> DocIds[i], folder |-> TreeIds[i]]]

\* C12: for every cycle-free folder set, folder F and document list,
\* countDocsRecursive(folders, F, docs) is the number of documents whose folder is
\* F or a transitive descendant of F; for root -> child -> grandchild with one
\* document each the counts are 3, 2 and 1.
C12_CountIsSubtreeSum ==
    lastOp.op = "countDocsRecursive" =>
      /\ lastOp.count =
            Cardinality({ i \in DOMAIN docs :
                            IsSelfOrBelow(folders, docs[i].folder, lastOp.id) })
      /\ (folders = ChainOfThree /\ docs = OneDocEach) =>
            lastOp.count = CASE lastOp.id = "a" -> 3
                             [] lastOp.id = "b" -> 2
                             [] lastOp.id = "c" -> 1

\* the documents under the root of a chain of three have just been counted, two
\* of them in folders below the root
C12_Witness ==
    /\ lastOp.op = "countDocsRecursive"
    /\ folders = ChainOfThree
    /\ docs = OneDocEach
    /\ lastOp.id = "a"
    /\ lastOp.count = 3

\* ---- the converter's claims, checked under SpecConvert

ListNodeTypes == { "bulletList", "orderedList", "taskList" }

ExpectedListNode ==
    [bulleted_list_item |-> "bulletList", numbered_list_item |-> "orderedList",
     to_do |-> "taskList"]

\* the positions of X where a maximal run of blocks of one list kind starts
RunStarts(X) ==
    { i \in 1..Len(X) :
        /\ X[i].type \in DOMAIN ExpectedListNode
        /\ i = 1 \/ X[i - 1].type # X[i].type }

\* the k-th of them, from the left
KthRunStart(X, k) ==
    CHOOSE i \in RunStarts(X) : Cardinality({ s \in RunStarts(X) : s <= i }) = k

\* the last position of the maximal run that starts at i
RunLast(X, i) ==
    CHOOSE j \in i..Len(X) :
        /\ \A k \in i..j : X[k].type = X[i].type
        /\ j = Len(X) \/ X[j + 1].type # X[i].type

\* the texts of a block's rich-text runs
RunTexts(block) ==
    IF "rich_text" \in DOMAIN block
    THEN [k \in 1..Len(block.rich_text) |-> block.rich_text[k].text.content]
    ELSE <<>>

\* the texts of the text nodes of a node
NodeTexts(node) ==
    IF "content" \in DOMAIN node
    THEN [k \in 1..Len(node.content) |-> node.content[k].text]
    ELSE <<>>

\* C14: notionBlocksToTiptap emits exactly one list node per maximal run of
\* consecutive blocks of one list kind (bulleted_list_item -> bulletList,
\* numbered_list_item -> orderedList, to_do -> taskList), the list nodes in
\* the order of the runs, each with exactly one item per run member in the
\* original order; three consecutive bulleted items give one bulletList with
\* three listItems and a paragraph between two items gives two bulletLists.
C14_OneListNodePerRun ==
    lastOp.op = "notionBlocksToTiptap" =>
        LET X == lastOp.arg
            lists == SelectSeq(doc.content, LAMBDA n : n.type \in ListNodeTypes)
        IN  /\ Len(lists) = Cardinality(RunStarts(X))
            /\ \A k \in 1..Len(lists) :
                 LET first == KthRunStart(X, k)
                     last == RunLast(X, first)
                     items == lists[k].content
                 IN  /\ lists[k].type = ExpectedListNode[X[first].type]
                     /\ Len(items) = last - first + 1
                     /\ \A m \in 1..Len(items) :
                          /\ items[m].type =
                               (IF X[first].type = "to_do" THEN "taskItem" ELSE "listItem")
                          /\ items[m].content[1].type = "paragraph"
                          /\ NodeTexts(items[m].content[1]) = RunTexts(X[first + m - 1])
            /\ (Len(X) = 3 /\ \A k \in 1..3 : X[k].type = "bulleted_list_item")
                 => /\ Len(doc.content) = 1
                    /\ doc.content[1].type = "bulletList"
                    /\ Len(doc.content[1].content) = 3
            /\ (Len(X) = 3 /\ X[1].type = "bulleted_list_item" /\ X[2].type = "paragraph"
                  /\ X[3].type = "bulleted_list_item")
                 => /\ Len(doc.content) = 3
                    /\ doc.content[1].type = "bulletList"
                    /\ doc.content[3].type = "bulletList"

\* three bulleted items with three different texts became one list
C14_Witness ==
    /\ lastOp.op = "notionBlocksToTiptap"
    /\ Len(lastOp.arg) = 3
    /\ \A k \in 1..3 : lastOp.arg[k].type = "bulleted_list_item"
    /\ \A j, k \in 1..3 : j # k => RunTexts(lastOp.arg[j]) # RunTexts(lastOp.arg[k])
    /\ Len(doc.content) = 1
    /\ Len(doc.content[1].content) = 3

\* the blocks of the subset both directions handle alike: paragraphs and
\* headings whose runs carry no annotation but bold, italic and code
Symmetric(X) ==
    \A i \in 1..Len(X) :
        /\ X[i].type \in { "paragraph", "heading_1", "heading_2", "heading_3" }
        /\ "rich_text" \in DOMAIN X[i] =>
             \A k \in 1..Len(X[i].rich_text) :
                 LET run == X[i].rich_text[k]
                 IN  /\ ~run.annotations.strikethrough
                     /\ ~run.annotations.underline
                     /\ run.annotations.color = "default"
                     /\ run.href = Null

\* the text and the bold, italic and code flags of each run of a list of runs
TextAndFlags(runs) ==
    [k \in 1..Len(runs) |->
        << runs[k].text.content, runs[k].annotations.bold,
           runs[k].annotations.italic, runs[k].annotations.code >>]

RunsOf(block) == IF "rich_text" \in DOMAIN block THEN block.rich_text ELSE <<>>

NonEmptyRunsOf(block) == SelectSeq(RunsOf(block), LAMBDA run : run.text.content # "")

\* C15 as stated: for every X of the symmetric subset,
\* tiptapToNotionBlocks(notionBlocksToTiptap(X)) has as many blocks as X and,
\* position by position, the same type, run texts and bold/italic/code flags.
C15_RoundTripExact ==
    [][(/\ lastOp.op = "notionBlocksToTiptap"
        /\ lastOp'.op = "tiptapToNotionBlocks"
        /\ Symmetric(blocks))
       => /\ Len(blocks') = Len(blocks)
          /\ \A i \in 1..Len(blocks) :
               /\ blocks'[i].type = blocks[i].type
               /\ TextAndFlags(RunsOf(blocks'[i])) = TextAndFlags(RunsOf(blocks[i]))]_vars

\* C15, amended: for a non-empty X of the symmetric subset the round trip has
\* as many blocks as X and, position by position, the same type and the texts
\* and bold/italic/code flags of the runs of X whose text is not empty, in
\* their order (a run with empty text is left out); for the empty X it is one
\* paragraph block without runs.
C15_RoundTripUpToEmptyRuns ==
    [][(/\ lastOp.op = "notionBlocksToTiptap"
        /\ lastOp'.op = "tiptapToNotionBlocks"
        /\ Symmetric(blocks))
       => IF blocks = <<>>
          THEN /\ Len(blocks') = 1
               /\ blocks'[1].type = "paragraph"
               /\ blocks'[1].rich_text = <<>>
          ELSE /\ Len(blocks') = Len(blocks)
               /\ \A i \in 1..Len(blocks) :
                    /\ blocks'[i].type = blocks[i].type
                    /\ TextAndFlags(RunsOf(blocks'[i]))
                         = TextAndFlags(NonEmptyRunsOf(blocks[i]))]_vars

\* a heading with a bold italic code run, a paragraph of two runs and a
\* paragraph that lost its empty run have made the round trip
C15_Witness ==
    /\ lastOp.op = "tiptapToNotionBlocks"
    /\ lastOp.after = "notionBlocksToTiptap"
    /\ Len(blocks) = 3
    /\ blocks[1].type = "heading_3"
    /\ TextAndFlags(blocks[1].rich_text) = << << "c", TRUE, TRUE, TRUE >> >>
    /\ blocks[2].type = "paragraph"
    /\ TextAndFlags(blocks[2].rich_text)
         = << << "a", FALSE, FALSE, FALSE >>, << "b", TRUE, FALSE, FALSE >> >>
    /\ blocks[3].type = "paragraph"
    /\ TextAndFlags(blocks[3].rich_text) = << << "c", FALSE, TRUE, TRUE >> >>

\* the nodes notionBlocksToTiptap makes of the blocks of X, none for a block
\* convertBlock has no case for
Convertible(X) ==
    SelectSeq(X, LAMBDA b : b.type \in ListKinds \/ convertBlock(b) # NullNode)

KnownBlockTypes ==
    { "paragraph", "heading_1", "heading_2", "heading_3", "bulleted_list_item",
      "numbered_list_item", "to_do", "quote", "code", "divider", "callout",
      "toggle", "image", "bookmark" }

\* X without its blocks of unknown type, at every nesting level
RECURSIVE WithoutUnknown(_)
WithoutUnknown(X) ==
    IF X = <<>> THEN <<>>
    ELSE LET b == Head(X)
         IN  (IF b.type \notin KnownBlockTypes THEN <<>>
              ELSE IF "children" \in DOMAIN b
                   THEN << [b EXCEPT !.children = WithoutUnknown(b.children)] >>
                   ELSE << b >>)
             \o WithoutUnknown(Tail(X))

\* C17: a block of unknown type contributes no node at any nesting level:
\* when at least one block is convertible at the top level, the document is
\* the one the blocks convert to without their unknown blocks, also where
\* the unknown blocks are all the children of a list item or of a toggle.
C17_UnknownBlocksLeaveNoNode ==
    (lastOp.op = "notionBlocksToTiptap" /\ WithoutUnknown(lastOp.arg) # <<>>)
        => doc = notionBlocksToTiptap(WithoutUnknown(lastOp.arg))

NonHeadingBlockTypes ==
    { "paragraph", "bulleted_list_item", "numbered_list_item", "to_do", "quote",
      "code", "divider" }

\* the block type the clamped level of a heading node stands for
ClampedHeading(node) ==
    IF "attrs" \notin DOMAIN node \/ "level" \notin DOMAIN node.attrs THEN "heading_1"
    ELSE IF node.attrs.level > 3 THEN "heading_3"
    ELSE IF node.attrs.level < 1 THEN "heading_1"
    ELSE "heading_" \o ToString(node.attrs.level)

\* C18: for every heading node tiptapToNotionBlocks emits exactly one block,
\* of type heading_1, heading_2 or heading_3: a level above 3 gives
\* heading_3, a missing level heading_1, and a level below 1 (zero or
\* negative) is clamped into the range.
C18_HeadingLevelClamped ==
    (lastOp.op = "tiptapToNotionBlocks" /\ "content" \in DOMAIN lastOp.arg) =>
        LET headings == SelectSeq(lastOp.arg.content, LAMBDA n : n.type = "heading")
            emitted == SelectSeq(blocks, LAMBDA b : b.type \notin NonHeadingBlockTypes)
        IN  /\ Len(emitted) = Len(headings)
            /\ \A k \in 1..Len(emitted) :
                 /\ emitted[k].type \in { "heading_1", "heading_2", "heading_3" }
                 /\ emitted[k].type = ClampedHeading(headings[k])

\* n times the kind
Repeat(kind, n) == [k \in 1..n |-> kind]

\* the kinds of the blocks one top-level node stands for, in their order
ExpectedKinds(node) ==
    LET items == IF "content" \in DOMAIN node THEN Len(node.content) ELSE 0
    IN  CASE node.type = "bulletList" -> Repeat("bulleted_list_item", items)
          [] node.type = "orderedList" -> Repeat("numbered_list_item", items)
          [] node.type = "taskList" -> Repeat("to_do", items)
          [] node.type = "paragraph" -> << "paragraph" >>
          [] node.type = "heading" -> << "heading" >>
          [] node.type = "blockquote" -> << "quote" >>
          [] node.type = "codeBlock" -> << "code" >>
          [] node.type = "horizontalRule" -> << "divider" >>
          [] OTHER -> <<>>

RECURSIVE ExpectedKindsOfAll(_)
ExpectedKindsOfAll(nodes) ==
    IF nodes = <<>> THEN <<>>
    ELSE ExpectedKinds(Head(nodes)) \o ExpectedKindsOfAll(Tail(nodes))

KindOf(block) ==
    IF block.type \in NonHeadingBlockTypes THEN block.type ELSE "heading"

\* C19: tiptapToNotionBlocks returns as many blocks as the top-level nodes
\* stand for (a list its number of items, none without children; paragraph,
\* heading, blockquote, codeBlock and horizontalRule one each, also with
\* empty inline content; any other node none), in document order.
C19_BlockCountIsSumOverNodes ==
    (lastOp.op = "tiptapToNotionBlocks" /\ "content" \in DOMAIN lastOp.arg) =>
        LET expected == ExpectedKindsOfAll(lastOp.arg.content)
        IN  /\ Len(blocks) = Len(expected)
            /\ \A k \in 1..Len(blocks) : KindOf(blocks[k]) = expected[k]

\* a list of two items, a paragraph without content and a node of another
\* type gave three blocks
C19_Witness ==
    /\ lastOp.op = "tiptapToNotionBlocks"
    /\ "content" \in DOMAIN lastOp.arg
    /\ Len(lastOp.arg.content) = 3
    /\ lastOp.arg.content[1] = [type |-> "image"]
    /\ lastOp.arg.content[2].type = "bulletList"
    /\ "content" \in DOMAIN lastOp.arg.content[2]
    /\ Len(lastOp.arg.content[2].content) = 2
    /\ lastOp.arg.content[3] = [type |-> "paragraph"]
    /\ Len(blocks) = 3
    /\ blocks[3].type = "paragraph"

\* the items of the top-level list nodes, in document order
RECURSIVE ItemsOfLists(_)
ItemsOfLists(nodes) ==
    IF nodes = <<>> THEN <<>>
    ELSE (IF Head(nodes).type \in ListNodeTypes /\ "content" \in DOMAIN Head(nodes)
          THEN Head(nodes).content ELSE <<>>)
         \o ItemsOfLists(Tail(nodes))

\* the texts of the first paragraph among the children of a list item
FirstParagraphTexts(item) ==
    LET paragraphs == IF "content" \in DOMAIN item
                      THEN SelectSeq(item.content, LAMBDA n : n.type = "paragraph")
                      ELSE <<>>
    IN  IF paragraphs = <<>> THEN <<>> ELSE NodeTexts(paragraphs[1])

\* C20: the block tiptapToNotionBlocks emits for a list item takes its rich
\* text only from the item's first paragraph child; no other child (a nested
\* list, a second paragraph) gives a block or text, and the block has no
\* children.
C20_ListItemKeepsFirstParagraphOnly ==
    (lastOp.op = "tiptapToNotionBlocks" /\ "content" \in DOMAIN lastOp.arg) =>
        LET items == ItemsOfLists(lastOp.arg.content)
            emitted == SelectSeq(blocks, LAMBDA b : b.type \in
                          { "bulleted_list_item", "numbered_list_item", "to_do" })
        IN  /\ Len(emitted) = Len(items)
            /\ \A k \in 1..Len(emitted) :
                 /\ RunTexts(emitted[k]) = FirstParagraphTexts(items[k])
                 /\ "children" \notin DOMAIN emitted[k]

\* an item with a nested list and an item with two paragraphs gave two blocks
C20_Witness ==
    /\ lastOp.op = "tiptapToNotionBlocks"
    /\ "content" \in DOMAIN lastOp.arg
    /\ Len(lastOp.arg.content) = 1
    /\ lastOp.arg.content[1].type = "bulletList"
    /\ "content" \in DOMAIN lastOp.arg.content[1]
    /\ Len(lastOp.arg.content[1].content) = 2
    /\ lastOp.arg.content[1].content[1].content[2].type = "bulletList"
    /\ lastOp.arg.content[1].content[2].content[2].type = "paragraph"
    /\ Len(blocks) = 2
    /\ RunTexts(blocks[1]) = << "a" >>
    /\ RunTexts(blocks[2]) = << "b" >>

\* ---- the converter's claims on single runs, checked under SpecRuns

\* the marks of the one text node, with a text, of the document handed to
\* tiptapToNotionBlocks
MarksGiven ==
    IF /\ lastOp.op = "tiptapToNotionBlocks"
       /\ "content" \in DOMAIN lastOp.arg
       /\ Len(lastOp.arg.content) = 1
       /\ lastOp.arg.content[1].type = "paragraph"
       /\ "content" \in DOMAIN lastOp.arg.content[1]
       /\ "marks" \in DOMAIN lastOp.arg.content[1].content[1]
       /\ "text" \in DOMAIN lastOp.arg.content[1].content[1]
       /\ lastOp.arg.content[1].content[1].text # ""
    THEN lastOp.arg.content[1].content[1].marks
    ELSE <<>>

\* the positions of the marks that write annotations.color, and the link
ColorWriters(marks) ==
    { k \in 1..Len(marks) :
        /\ marks[k].type \in { "textStyle", "highlight" }
        /\ "attrs" \in DOMAIN marks[k] }

LinkWriters(marks) == { k \in 1..Len(marks) : marks[k].type = "link" }

Last(S) == CHOOSE k \in S : \A j \in S : j <= k

\* the name the table gives a CSS color among the names of one kind
NameOfCss(css, background, fallback) ==
    LET names == { n \in DOMAIN NOTION_COLORS :
                     /\ NOTION_COLORS[n] = css
                     /\ (n \in { "gray_background", "brown_background",
                                 "orange_background", "yellow_background",
                                 "green_background", "blue_background",
                                 "purple_background", "pink_background",
                                 "red_background" }) = background }
    IN  IF names = {} THEN fallback ELSE CHOOSE n \in names : TRUE

\* C21: when several marks of a run write the same annotation field,
\* tiptapContentToRichText keeps the value of the last of them in the run's
\* mark order: of two textStyle colors, of two links, and of a textStyle and
\* a highlight the later one determines the result.
C21_LastMarkWins ==
    (MarksGiven # <<>>) =>
        LET marks == MarksGiven
            run == blocks[1].rich_text[1]
            colors == ColorWriters(marks)
            links == LinkWriters(marks)
        IN  /\ run.annotations.color =
                 (IF colors = {} THEN "default"
                  ELSE LET mark == marks[Last(colors)]
                       IN  IF mark.type = "textStyle"
                           THEN NameOfCss(mark.attrs.color, FALSE, "default")
                           ELSE NameOfCss(mark.attrs.color, TRUE, "yellow_background"))
            /\ run.text.link =
                 (IF links = {} THEN Null
                  ELSE LET mark == marks[Last(links)]
                       IN  IF "attrs" \in DOMAIN mark THEN mark.attrs.href ELSE Null)

\* a run with a red textStyle followed by a green highlight came out green
C21_Witness ==
    /\ Len(MarksGiven) = 2
    /\ MarksGiven[1] = [type |-> "textStyle", attrs |-> [color |-> NOTION_COLORS.red]]
    /\ MarksGiven[2].type = "highlight"
    /\ blocks[1].rich_text[1].annotations.color = "green_background"

BackgroundNames ==
    { "gray_background", "brown_background", "orange_background",
      "yellow_background", "green_background", "blue_background",
      "purple_background", "pink_background", "red_background" }

ForegroundNames ==
    { "gray", "brown", "orange", "yellow", "green", "blue", "purple", "pink", "red" }

\* the block list is one paragraph of one run of a named color other than default
IsNamedColorRun(X) ==
    /\ Len(X) = 1
    /\ X[1] \in ColorBlocks
    /\ X[1].rich_text[1].annotations.color \in BackgroundNames \cup ForegroundNames

\* C22: for each of the 18 named colors other than default, a run of that
\* color becomes a mark (textStyle for a foreground name, highlight for a
\* name ending in _background) carrying the table's CSS value, the mark
\* converts back to the same name, and no two names of one kind share a CSS
\* value.
C22_NamedColorsRoundTrip ==
    [][(/\ lastOp.op = "notionBlocksToTiptap"
        /\ lastOp'.op = "tiptapToNotionBlocks"
        /\ IsNamedColorRun(blocks))
       => LET c == blocks[1].rich_text[1].annotations.color
              marks == doc.content[1].content[1].marks
          IN  /\ BackgroundNames \cup ForegroundNames = DOMAIN NOTION_COLORS \ { "default" }
              /\ Cardinality(BackgroundNames \cup ForegroundNames) = 18
              /\ marks = << [type |-> IF c \in BackgroundNames THEN "highlight"
                                      ELSE "textStyle",
                             attrs |-> [color |-> NOTION_COLORS[c]]] >>
              /\ blocks'[1].rich_text[1].annotations.color = c
              /\ \A kind \in { BackgroundNames, ForegroundNames } :
                   \A m, n \in kind : NOTION_COLORS[m] = NOTION_COLORS[n] => m = n]_vars

\* a background color has made the round trip
C22_Witness ==
    /\ lastOp.op = "tiptapToNotionBlocks"
    /\ lastOp.after = "notionBlocksToTiptap"
    /\ lastOp.arg.content
         = << [type |-> "paragraph",
               content |-> << [type |-> "text", text |-> "t",
                               marks |-> << [type |-> "highlight",
                                             attrs |-> [color |->
                                                NOTION_COLORS.pink_background]] >>] >>] >>
    /\ Len(blocks) = 1
    /\ blocks[1].rich_text[1].annotations.color = "pink_background"

\* the text nodes below a node, at every depth
RECURSIVE TextNodesOf(_)
TextNodesOf(node) ==
    IF node.type = "text" THEN { node }
    ELSE IF "content" \in DOMAIN node
         THEN UNION { TextNodesOf(node.content[k]) : k \in DOMAIN node.content }
         ELSE {}

\* a text node with everything the editor reads: a text and, on its marks, a
\* type, a color on textStyle and highlight, an href on link
DefaultedTextNode(node) ==
    /\ "text" \in DOMAIN node
    /\ "marks" \in DOMAIN node =>
         \A k \in DOMAIN node.marks :
             LET mark == node.marks[k]
             IN  /\ "type" \in DOMAIN mark
                 /\ mark.type \in { "textStyle", "highlight" } =>
                      "attrs" \in DOMAIN mark /\ mark.attrs.color # Null
                 /\ mark.type = "link" =>
                      "attrs" \in DOMAIN mark /\ mark.attrs.href # Null

\* a block with everything the external model reads: a known type, a list of
\* runs each with a content, a link and six annotations, the color a name of
\* the table; checked on to_do and a language on code
DefaultedBlock(block) ==
    /\ block.object = "block"
    /\ block.type \in { "paragraph", "heading_1", "heading_2", "heading_3",
                        "bulleted_list_item", "numbered_list_item", "to_do",
                        "quote", "code", "divider" }
    /\ block.type # "divider" =>
         /\ "rich_text" \in DOMAIN block
         /\ \A k \in DOMAIN block.rich_text :
              LET run == block.rich_text[k]
              IN  /\ DOMAIN run.text = { "content", "link" }
                  /\ run.text.content # ""
                  /\ DOMAIN run.annotations =
                       { "bold", "italic", "strikethrough", "underline", "code", "color" }
                  /\ run.annotations.color \in DOMAIN NOTION_COLORS
    /\ block.type = "to_do" => "checked" \in DOMAIN block /\ block.checked \in BOOLEAN
    /\ block.type = "code" => "language" \in DOMAIN block /\ block.language # Null

\* C23: both directions return a defaulted result when optional fields are
\* missing or off the table: a block without its payload, a run without
\* annotations or plain_text, a node without attrs or content, a color that
\* is absent or not in the table. (An access that would raise in the source
\* is an access outside a record's domain here, which stops the evaluation.)
C23_MissingFieldsAreDefaulted ==
    /\ lastOp.op = "notionBlocksToTiptap" =>
         /\ doc.type = "doc"
         /\ Len(doc.content) >= 1
         /\ \A node \in TextNodesOf(doc) : DefaultedTextNode(node)
    /\ lastOp.op = "tiptapToNotionBlocks" =>
         \A k \in DOMAIN blocks : DefaultedBlock(blocks[k])

\* a task item without attrs and without content has been converted
C23_Witness ==
    /\ lastOp.op = "tiptapToNotionBlocks"
    /\ lastOp.arg = [type |-> "doc",
                     content |-> << [type |-> "taskList",
                                     content |-> << [type |-> "taskItem"] >>] >>]
    /\ blocks = << [object |-> "block", type |-> "to_do", rich_text |-> <<>>,
                    checked |-> FALSE] >>

\* ---- counts, frames and zones of the folder tree

C27_DeleteMovesAnnouncedCount ==
    [][lastOp'.op = "deleteFolder" =>
         Cardinality({ i \in DOMAIN docs : docs'[i].folder # docs[i].folder })
           = lastOp'.docCount]_vars

C24_IndicatorAndDropAgree ==
    /\ [][(lastOp'.op = "dragOver" /\ dropIndicator' # NoIndicator) =>
            /\ 4 * lastOp'.y < lastOp'.h => dropIndicator'.zone = "before"
            /\ 4 * lastOp'.y > 3 * lastOp'.h => dropIndicator'.zone = "after"
            /\ (lastOp'.h < 4 * lastOp'.y /\ 4 * lastOp'.y < 3 * lastOp'.h)
                 => dropIndicator'.zone = "inside"]_vars
    /\ [][(/\ lastOp.op = "dragOver"
           /\ lastOp'.op = "drop"
           /\ lastOp'.outcome \in { "before", "after", "inside" })
          => /\ dropIndicator # NoIndicator
             /\ dropIndicator.row = lastOp'.target
             /\ dropIndicator.zone = lastOp'.outcome
             /\ 4 * lastOp.y < lastOp.h => lastOp'.outcome = "before"
             /\ 4 * lastOp.y > 3 * lastOp.h => lastOp'.outcome = "after"
             /\ (lastOp.h < 4 * lastOp.y /\ 4 * lastOp.y < 3 * lastOp.h)
                  => lastOp'.outcome = "inside"]_vars

\* a dragover at exactly one quarter of the row height has marked a row
C24_Witness ==
    /\ lastOp.op = "dragOver"
    /\ lastOp.h = 4
    /\ lastOp.y = 1
    /\ dropIndicator # NoIndicator
    /\ dropIndicator.row = lastOp.target

\* the step ran saveToLocal
SavedLocally == lastOp'.op \in { "autoSave", "saveClick", "close" } /\ lastOp'.saved

\* C25: in the local-first editor the first saveToLocal of a new note adds
\* exactly one document, with createdAt equal to updatedAt, and records its
\* id as the current document; every later save changes only that document
\* (title, folder, content, updatedAt) and never adds a second document,
\* alters createdAt or touches another document.
C25_SaveCreatesOnceThenUpdates ==
    [][SavedLocally =>
         IF localEditor.currentDocId = Null
         THEN /\ Len(docs') = Len(docs) + 1
              /\ SubSeq(docs', 1, Len(docs)) = docs
              /\ docs'[Len(docs')].id \notin IdsOfDocs(docs)
              /\ docs'[Len(docs')].createdAt = docs'[Len(docs')].updatedAt
              /\ localEditor'.currentDocId = docs'[Len(docs')].id
         ELSE /\ Len(docs') = Len(docs)
              /\ localEditor'.currentDocId = localEditor.currentDocId
              /\ \A i \in DOMAIN docs :
                   IF docs[i].id = localEditor.currentDocId
                   THEN /\ docs'[i].id = docs[i].id
                        /\ docs'[i].createdAt = docs[i].createdAt
                        /\ docs'[i].notionPageId = docs[i].notionPageId
                        /\ docs'[i].content = localEditor.content
                        /\ docs'[i].updatedAt = now'
                   ELSE docs'[i] = docs[i]]_vars

\* a note created in this session has been saved again after a change
C25_Witness ==
    /\ lastOp.op \in { "autoSave", "saveClick", "close" }
    /\ lastOp.saved
    /\ Len(docs) = Len(EditorDocs) + 1
    /\ docs[Len(docs)].id = localEditor.currentDocId
    /\ docs[Len(docs)].updatedAt > docs[Len(docs)].createdAt
    /\ docs[Len(docs)].content # 0
    /\ docs[Len(docs)].title = "Plan"

\* the pages createPage has made for the document with this id
PagesFor(id) == { i \in DOMAIN notion.pages : notion.pages[i].doc = id }

\* C30: in the Notion backup of the local-first editor the page id that
\* createPage returns is stored on the document whose content was sent, and
\* a document that has no notionPageId gets at most one page.
C30_PageIdGoesToTheSentDocument ==
    /\ [][(lastOp'.op = "createPage" /\ lastOp'.pageId # Null) =>
            \A i \in DOMAIN docs :
               (docs'[i].notionPageId = lastOp'.pageId) <=> (docs[i].id = lastOp'.doc)]_vars
    /\ [](\A i \in DOMAIN docs : Cardinality(PagesFor(docs[i].id)) <= 1)

\* the calls of updatePageBlocks that have not returned
SavesInFlight == { c \in pending : c.call = "updatePageBlocks" }

\* C29: in the Notion-synced editor, whenever isDirty is false after a
\* successful saveToNotion the content last sent equals the editor's content
\* (an edit made while a save is in flight is not left unsynced with isDirty
\* cleared), and at most one updatePageBlocks call is in flight at a time.
C29_CleanMeansSent ==
    /\ [][(lastOp'.op = "saveToNotion" /\ lastOp'.success /\ ~syncEditor'.isDirty)
            => lastOp'.content = syncEditor'.content]_vars
    /\ [](Cardinality(SavesInFlight) <= 1)

====
